---- MODULE Spec2Model ----
(***************************************************************************)
(* Model of telegram/_passport/passportdata.py: the PassportData aggregate *)
(* with its lazily decrypted, cached views, accessed by several callers.   *)
(*                                                                         *)
(* Python values are modelled as follows.  None is the empty tuple, an     *)
(* optional number is boxed (<<v>>), a TelegramObject is a record over its *)
(* slots, a JSON dict is a function over the keys that are present, and a  *)
(* list object is a record [id, elems] so that two lists that are equal by *)
(* value can still be told apart by identity.                              *)
(***************************************************************************)
EXTENDS Integers, Sequences, FiniteSets, Bags, TLC

(* ------------------------------ bounds --------------------------------- *)

\* number of callers (threads) sharing the one PassportData instance
NumCallers == 2
\* longest PassportData.data list drawn as input
MaxLen == 2
\* accessor calls made on the instance in one behaviour
MaxCalls == 3

Callers == 1..NumCallers

None == <<>>
Some(v) == <<v>>

(* --------------------------- byte arithmetic --------------------------- *)

\* bytes are the residues 0..4
Wrap(x) == x % 5
Bytes == 0..4

\* ByteCodec.sha256: the integrity digest (injective on Bytes)
Hash(p) == Wrap(2 * p + 1)

\* key derivation of 4.2 step 2: the key comes from the secret and the
\* encrypted bytes
DeriveKey(secret, cipher) == Hash(Wrap(secret + cipher))

\* ByteCodec.decrypt_aes_cbc
DecryptAES(cipher, key) == Wrap(cipher - key + 5)

\* the integrator's private keys: none configured, the right one, a wrong one
PrivateKeys == {"none", "right", "wrong"}
KeyVal(k) == IF k = "right" THEN 1 ELSE 2

\* ByteCodec.decrypt_rsa
DecryptRSA(cipher, k) == Wrap(cipher - KeyVal(k) + 5)

(* ----------------------------- Credentials ----------------------------- *)

\* element types: passport carries an encrypted data blob, phone_number is
\* plaintext
SecureTypes == {"passport"}
PlainTypes == {"phone_number"}

\* Credentials.de_json: the decrypted payload parsed into nonce + secure_data
ParseCredentials(p) ==
    [nonce |-> p,
     secure_data |-> [ty \in SecureTypes |->
                        [secret |-> Wrap(p + 1), hash |-> Wrap(p + 2)]]]

Ok(v) == [ok |-> TRUE, value |-> v]
Err(e, stage) == [ok |-> FALSE, error |-> e, stage |-> stage]

\* CredentialsDecryptor (4.2): RAW -> SECRET_RECOVERED -> PAYLOAD_DECRYPTED
\* -> PARSED, for an EncryptedCredentials c and the configured private key
DecryptCredentials(c, key) ==
    IF key = "none" THEN Err("ConfigurationError", "RAW")
    ELSE LET secret == DecryptRSA(c.secret, key)
             k == DeriveKey(secret, c.data)
             plain == DecryptAES(c.data, k)
         IN IF Hash(plain) # c.hash
            THEN Err("IntegrityError", "PAYLOAD_DECRYPTED")
            ELSE Ok(ParseCredentials(plain))

\* the EncryptedCredentials that the right key decrypts to nonce 3
ValidCredentials ==
    CHOOSE c \in [secret : Bytes, data : Bytes, hash : Bytes] :
        /\ DecryptRSA(c.secret, "right") = 2
        /\ DecryptCredentials(c, "right") = Ok(ParseCredentials(3))

\* the same with one byte of data changed
TamperedCredentials == [ValidCredentials EXCEPT !.data = Wrap(@ + 1)]

CredentialsInputs == {ValidCredentials, TamperedCredentials}

(* ------------------------ EncryptedPassportElement --------------------- *)

ElemFields == {"type", "data", "phone_number"}

\* EncryptedPassportElement.to_dict: type (required) and the optional keys
\* whose value is not None
ElemToDict(e) ==
    [f \in {g \in ElemFields : g = "type" \/ e[g] # None} |-> e[f]]

\* EncryptedPassportElement.de_json: a slot per field, None when absent
ElemFromDict(d) == [f \in ElemFields |-> IF f \in DOMAIN d THEN d[f] ELSE None]

\* EncryptedPassportElement.de_list
ElemDeList(ds) == [i \in 1..Len(ds) |-> ElemFromDict(ds[i])]

\* EncryptedPassportElement.de_json_decrypted (4.3): the plaintext
\* counterpart of the element dict d under Credentials creds
de_json_decrypted(d, creds) ==
    IF d["type"] \in PlainTypes
    THEN Ok(ElemFromDict(d))
    ELSE LET sd == creds.secure_data[d["type"]]
             plain == DecryptAES(d["data"][1], DeriveKey(sd.secret, sd.hash))
         IN IF Hash(plain) # sd.hash
            THEN Err("IntegrityError", "element")
            ELSE Ok(ElemFromDict([d EXCEPT !["data"] = Some(plain)]))

\* the field decryptions (decrypt_aes_cbc calls) de_json_decrypted makes for
\* the element dict d: none for a plaintext type, one for the data blob
FieldDecryptions(d) == IF d["type"] \in PlainTypes THEN 0 ELSE 1

\* a passport element whose data blob decrypts and verifies under
\* ValidCredentials
ValidPassport ==
    CHOOSE e \in [type : {"passport"}, data : {Some(b) : b \in Bytes},
                  phone_number : {None}] :
        de_json_decrypted(ElemToDict(e), ParseCredentials(3)).ok

\* the same with one byte of the blob changed
TamperedPassport == [ValidPassport EXCEPT !.data = Some(Wrap(@[1] + 1))]

PhoneNumber == [type |-> "phone_number", data |-> None, phone_number |-> Some(7)]

ElementInputs == {ValidPassport, TamperedPassport, PhoneNumber}

RECURSIVE SeqsUpTo(_, _)
SeqsUpTo(S, n) ==
    IF n = 0 THEN {<<>>}
    ELSE LET shorter == SeqsUpTo(S, n - 1)
         IN shorter \cup {Append(s, x) : s \in {q \in shorter : Len(q) = n - 1}, x \in S}


(* ------------------------------ the state ------------------------------ *)

VARIABLES
    privateKey,      \* the private key configured on the bot
    instance,        \* "unborn", "None" (de_json returned None) or "live"
    data,            \* PassportData.data
    credentials,     \* PassportData.credentials
    _decrypted_data, \* PassportData._decrypted_data: None or a list object
    _id_attrs,       \* PassportData._id_attrs: what equality and hash go by
    cred_decrypted,  \* EncryptedCredentials' cached Credentials, or None
    pc,              \* where each caller stands
    idx,             \* the comprehension's position in data, per caller
    acc,             \* the list the comprehension has built so far, per caller
    arg,             \* the Credentials evaluated as call argument, per caller
    ret,             \* what each caller's last call returned or raised
    hit,             \* whether the caller's decrypted_data call found the cache set
    work,            \* decryption work done inside the caller's current call
    calls,           \* accessor calls begun
    passes,          \* passes over data begun
    credRuns,        \* runs of the credentials decryption
    elemCalls,       \* calls of de_json_decrypted
    fieldDecrypts,   \* field decryptions made inside de_json_decrypted
    nextId           \* identity of the next list object

\* the state of the other classes of the library, which PassportData never
\* touches
VARIABLES
    twins,           \* two PassportData built from one payload
    cred_stage,      \* credentials decryption: the stage reached
    cred_secret,     \* credentials decryption: the recovered session secret
    cred_plain,      \* credentials decryption: the decrypted payload
    cred_out,        \* credentials decryption: what the run produced
    handler,         \* a CommandHandler
    update,          \* the update given to the handler
    bot_username,    \* dispatcher.bot.username
    checked,         \* what check_update returned
    callback_calls,  \* the calls the handler's callback has received
    handled,         \* what handle_update returned
    media_args,      \* the arguments an InputMedia* is constructed with
    input_media,     \* the constructed InputMedia* object
    poll_args,       \* the arguments a Poll is constructed with
    poll,            \* the constructed Poll
    parsed,          \* what a parse_explanation_* call returned or raised
    application,     \* an Application: its bot and its data objects
    contexts,        \* the CallbackContext objects built so far
    ctx_out,         \* what the last CallbackContext operation produced
    chat,            \* a Chat
    bot_calls,       \* the calls the chat's Bot has received
    chat_out         \* what the last Chat operation produced

vars == <<privateKey, instance, data, credentials, _decrypted_data, _id_attrs,
          cred_decrypted, pc, idx, acc, arg, ret, hit, work, calls, passes,
          credRuns, elemCalls, fieldDecrypts, nextId>>

twinVars == <<twins>>
credVars == <<cred_stage, cred_secret, cred_plain, cred_out>>
cmdVars == <<handler, update, bot_username, checked, callback_calls, handled>>
mediaVars == <<media_args, input_media>>
pollVars == <<poll_args, poll, parsed>>
ctxVars == <<application, contexts, ctx_out>>
chatVars == <<chat, bot_calls, chat_out>>

\* everything outside PassportData
elsewhere == <<twinVars, credVars, cmdVars, mediaVars, pollVars, ctxVars, chatVars>>
allvars == <<vars, elsewhere>>

\* a class that takes no part in a specification stays as it is
TwinsIdle == twins = None
CredIdle ==
    cred_stage = None /\ cred_secret = None /\ cred_plain = None /\ cred_out = None
CmdIdle ==
    /\ handler = None /\ update = None /\ bot_username = None
    /\ checked = None /\ callback_calls = None /\ handled = None
MediaIdle == media_args = None /\ input_media = None
PollIdle == poll_args = None /\ poll = None /\ parsed = None
CtxIdle == application = None /\ contexts = None /\ ctx_out = None
ChatIdle == chat = None /\ bot_calls = None /\ chat_out = None

slots == <<data, credentials, _decrypted_data, _id_attrs>>
locals == <<idx, acc, arg, hit, work>>
counters == <<passes, credRuns, elemCalls, fieldDecrypts, nextId>>

Returned(op, v) == [op |-> op, kind |-> "value", value |-> v]
Raised(op, e) == [op |-> op, kind |-> "error", value |-> e]

(* ------------------------- PassportData, by method --------------------- *)

\* EncryptedCredentials.decrypted_data: decrypt on the first access, cache,
\* return the cached Credentials afterwards.  cache is the cached value.
EncryptedCredentials_decrypted_data(cache) ==
    IF cache = None
    THEN LET r == DecryptCredentials(credentials, privateKey)
         IN [cache |-> IF r.ok THEN r.value ELSE None, ran |-> 1, result |-> r]
    ELSE [cache |-> cache, ran |-> 0, result |-> Ok(cache)]

\* a decrypted_credentials that decrypts anew on every access
decrypted_credentials_uncached(cache) ==
    EncryptedCredentials_decrypted_data(None)

\* PassportData.decrypted_credentials: return self.credentials.decrypted_data
decrypted_credentials(cache) == EncryptedCredentials_decrypted_data(cache)

\* line 71: tuple([x.type for x in data] + [credentials.hash])
IdAttrs(d, c) == [i \in 1..Len(d) |-> d[i].type] \o <<c.hash>>

\* an __init__ that decrypts eagerly
PassportData_init_eager(d, c) ==
    LET cr == DecryptCredentials(c, privateKey)
    IN [data |-> d, credentials |-> c, _id_attrs |-> IdAttrs(d, c),
        _decrypted_data |->
            IF cr.ok /\ \A i \in 1..Len(d) :
                           de_json_decrypted(ElemToDict(d[i]), cr.value).ok
            THEN [id |-> 0,
                  elems |-> [i \in 1..Len(d) |->
                      de_json_decrypted(ElemToDict(d[i]), cr.value).value]]
            ELSE None]

\* PassportData.__init__: the slots of the new object
PassportData_init(d, c) ==
    [data |-> d, credentials |-> c, _decrypted_data |-> None,
     _id_attrs |-> IdAttrs(d, c)]

\* EncryptedCredentials.to_dict: all three fields are required
CredToDict(c) == [k \in {"data", "hash", "secret"} |-> c[k]]

\* TelegramObject.to_dict: the public slots, each serialised by its to_dict
TelegramObject_to_dict(d, c) ==
    [k \in {"data", "credentials"} |->
        IF k = "data" THEN [i \in 1..Len(d) |-> ElemToDict(d[i])]
        ELSE CredToDict(c)]

\* a to_dict that serialises the decrypted elements once they are cached
to_dict_decrypted(d, c, dd) ==
    [TelegramObject_to_dict(d, c) EXCEPT
        !["data"] = IF dd = None THEN [i \in 1..Len(d) |-> ElemToDict(d[i])]
                    ELSE [i \in 1..Len(dd.elems) |-> ElemToDict(dd.elems[i])]]

\* PassportData.to_dict over the slots (d, c, dd)
to_dict(d, c, dd) ==
    [TelegramObject_to_dict(d, c) EXCEPT
        !["data"] = [i \in 1..Len(d) |-> ElemToDict(d[i])]]

\* a cache test that always decrypts
NeedsDecryption_always(slot) == TRUE

\* line 104: the cache test of decrypted_data
NeedsDecryption(slot) == slot = None

\* a decryption that writes the plaintext element over the encrypted one
DataAfterDecrypt_in_place(d, i, v) == [d EXCEPT ![i] = v]

\* lines 105-110: de_json_decrypted is given element.to_dict() and returns a
\* new element; self.data is not assigned
DataAfterDecrypt(d, i, v) == d

\* a comprehension that leaves out the plaintext elements
Collect_skip_plain(list, v) ==
    IF v.type \in PlainTypes THEN list ELSE Append(list, v)

\* a comprehension that builds the list back to front
Collect_reversed(list, v) == <<v>> \o list

\* lines 105-110: the comprehension appends each decrypted element in order
Collect(list, v) == Append(list, v)

\* a decrypted_data that caches an empty list when decryption fails
SlotAfterRaise_cached(slot, partial) == [id |-> 0, elems |-> <<>>]

\* a decrypted_data that publishes the list while it is being built
SlotAfterRaise_partial(slot, partial) ==
    IF partial = <<>> THEN slot ELSE [id |-> 0, elems |-> partial]

\* lines 105-110: the assignment happens after the comprehension, so a raise
\* inside it leaves the slot as it was, whatever was built so far
SlotAfterRaise(slot, partial) == slot

(* ------------------------------- actions ------------------------------- *)

Init ==
    /\ privateKey \in PrivateKeys
    /\ instance = "unborn"
    /\ data = <<>>
    /\ credentials = None
    /\ _decrypted_data = None
    /\ _id_attrs = None
    /\ cred_decrypted = None
    /\ pc = [t \in Callers |-> "idle"]
    /\ idx = [t \in Callers |-> 0]
    /\ acc = [t \in Callers |-> <<>>]
    /\ arg = [t \in Callers |-> None]
    /\ ret = [t \in Callers |-> None]
    /\ hit = [t \in Callers |-> FALSE]
    /\ work = [t \in Callers |-> 0]
    /\ calls = 0
    /\ passes = 0
    /\ credRuns = 0
    /\ elemCalls = 0
    /\ fieldDecrypts = 0
    /\ nextId = 1
    /\ TwinsIdle /\ CredIdle /\ CmdIdle /\ MediaIdle /\ PollIdle
    /\ CtxIdle /\ ChatIdle

\* PassportData(data, credentials)
Construct(d, c) ==
    /\ instance = "unborn"
    /\ LET self == PassportData_init(d, c)
       IN /\ data' = self.data
          /\ credentials' = self.credentials
          /\ _decrypted_data' = self._decrypted_data
          /\ _id_attrs' = self._id_attrs
    /\ instance' = "live"
    /\ UNCHANGED <<elsewhere, privateKey, cred_decrypted, pc, locals, ret, calls, counters>>

\* the JSON payloads de_json is given: nothing, or a passport_data object
JsonInputs ==
    {None} \cup
    {[k \in {"data", "credentials"} |->
        IF k = "data" THEN [i \in 1..Len(d) |-> ElemToDict(d[i])]
        ELSE CredToDict(c)] :
        d \in SeqsUpTo(ElementInputs, MaxLen), c \in CredentialsInputs}

\* PassportData.de_json(json, bot)
de_json(json) ==
    /\ instance = "unborn"
    /\ IF json = None
       THEN /\ instance' = "None"
            /\ UNCHANGED slots
       ELSE LET self == PassportData_init(ElemDeList(json["data"]),
                                          json["credentials"])
            IN /\ instance' = "live"
               /\ data' = self.data
               /\ credentials' = self.credentials
               /\ _decrypted_data' = self._decrypted_data
               /\ _id_attrs' = self._id_attrs
    /\ UNCHANGED <<elsewhere, privateKey, cred_decrypted, pc, locals, ret, calls, counters>>

CanCall(t) == instance = "live" /\ pc[t] = "idle" /\ calls < MaxCalls

\* decrypted_data, line 104: test the cache
dd_enter(t) ==
    /\ CanCall(t)
    /\ calls' = calls + 1
    /\ work' = [work EXCEPT ![t] = 0]
    /\ idx' = [idx EXCEPT ![t] = 1]
    /\ acc' = [acc EXCEPT ![t] = <<>>]
    /\ hit' = [hit EXCEPT ![t] = _decrypted_data # None]
    /\ IF NeedsDecryption(_decrypted_data)
       THEN /\ passes' = passes + 1
            /\ pc' = [pc EXCEPT ![t] = IF Len(data) = 0 THEN "dd_store"
                                       ELSE "dd_creds"]
       ELSE /\ passes' = passes
            /\ pc' = [pc EXCEPT ![t] = "dd_return"]
    /\ UNCHANGED <<elsewhere, privateKey, instance, slots, cred_decrypted, arg, ret,
                   credRuns, elemCalls, fieldDecrypts, nextId>>

\* decrypted_data, line 107: evaluate self.decrypted_credentials as the
\* argument of the call for element idx
dd_creds(t) ==
    /\ pc[t] = "dd_creds"
    /\ LET r == decrypted_credentials(cred_decrypted)
       IN /\ cred_decrypted' = r.cache
          /\ credRuns' = credRuns + r.ran
          /\ work' = [work EXCEPT ![t] = @ + 1]
          /\ IF r.result.ok
             THEN /\ arg' = [arg EXCEPT ![t] = r.result.value]
                  /\ pc' = [pc EXCEPT ![t] = "dd_elem"]
                  /\ UNCHANGED <<ret, _decrypted_data>>
             ELSE /\ arg' = [arg EXCEPT ![t] = None]
                  /\ pc' = [pc EXCEPT ![t] = "idle"]
                  /\ ret' = [ret EXCEPT ![t] =
                                Raised("decrypted_data", r.result.error)]
                  /\ _decrypted_data' = SlotAfterRaise(_decrypted_data, acc[t])
    /\ UNCHANGED <<elsewhere, privateKey, instance, data, credentials, _id_attrs, idx, acc, hit,
                   calls, passes, elemCalls, fieldDecrypts, nextId>>

\* decrypted_data, lines 106-109: de_json_decrypted on element idx
dd_elem(t) ==
    /\ pc[t] = "dd_elem"
    /\ LET r == de_json_decrypted(ElemToDict(data[idx[t]]), arg[t])
       IN /\ elemCalls' = elemCalls + 1
          /\ fieldDecrypts' =
                fieldDecrypts + FieldDecryptions(ElemToDict(data[idx[t]]))
          /\ work' = [work EXCEPT ![t] = @ + 1]
          /\ arg' = [arg EXCEPT ![t] = None]
          /\ data' = IF r.ok THEN DataAfterDecrypt(data, idx[t], r.value)
                     ELSE data
          /\ IF r.ok
             THEN /\ acc' = [acc EXCEPT ![t] = Collect(@, r.value)]
                  /\ idx' = [idx EXCEPT ![t] = @ + 1]
                  /\ pc' = [pc EXCEPT ![t] = IF idx[t] = Len(data)
                                             THEN "dd_store" ELSE "dd_creds"]
                  /\ UNCHANGED <<ret, _decrypted_data>>
             ELSE /\ pc' = [pc EXCEPT ![t] = "idle"]
                  /\ ret' = [ret EXCEPT ![t] = Raised("decrypted_data", r.error)]
                  /\ _decrypted_data' = SlotAfterRaise(_decrypted_data, acc[t])
                  /\ UNCHANGED <<acc, idx>>
    /\ UNCHANGED <<elsewhere, privateKey, instance, credentials, _id_attrs, cred_decrypted,
                   hit, calls, passes, credRuns, nextId>>

\* decrypted_data, line 105: self._decrypted_data = [...], a new list object
dd_store(t) ==
    /\ pc[t] = "dd_store"
    /\ _decrypted_data' = [id |-> nextId, elems |-> acc[t]]
    /\ nextId' = nextId + 1
    /\ pc' = [pc EXCEPT ![t] = "dd_return"]
    /\ UNCHANGED <<elsewhere, privateKey, instance, data, credentials, _id_attrs, cred_decrypted,
                   locals, ret, calls, passes, credRuns, elemCalls,
                   fieldDecrypts>>

\* decrypted_data, line 111: return self._decrypted_data
dd_return(t) ==
    /\ pc[t] = "dd_return"
    /\ ret' = [ret EXCEPT ![t] = Returned("decrypted_data", _decrypted_data)]
    /\ pc' = [pc EXCEPT ![t] = "idle"]
    /\ UNCHANGED <<elsewhere, privateKey, instance, slots, cred_decrypted, locals, calls,
                   counters>>

\* the decrypted_credentials property called by a caller
dc_access(t) ==
    /\ CanCall(t)
    /\ calls' = calls + 1
    /\ LET r == decrypted_credentials(cred_decrypted)
       IN /\ cred_decrypted' = r.cache
          /\ credRuns' = credRuns + r.ran
          /\ ret' = [ret EXCEPT ![t] =
                        IF r.result.ok
                        THEN Returned("decrypted_credentials", r.result.value)
                        ELSE Raised("decrypted_credentials", r.result.error)]
    /\ UNCHANGED <<elsewhere, privateKey, instance, slots, pc, locals, passes, elemCalls,
                   fieldDecrypts, nextId>>

\* to_dict called by a caller
call_to_dict(t) ==
    /\ CanCall(t)
    /\ calls' = calls + 1
    /\ ret' = [ret EXCEPT ![t] =
                  Returned("to_dict", to_dict(data, credentials, _decrypted_data))]
    /\ UNCHANGED <<elsewhere, privateKey, instance, slots, cred_decrypted, pc, locals,
                   counters>>

Next ==
    \/ \E d \in SeqsUpTo(ElementInputs, MaxLen), c \in CredentialsInputs :
          Construct(d, c)
    \/ \E json \in JsonInputs : de_json(json)
    \/ \E t \in Callers : dd_enter(t)
    \/ \E t \in Callers : dd_creds(t)
    \/ \E t \in Callers : dd_elem(t)
    \/ \E t \in Callers : dd_store(t)
    \/ \E t \in Callers : dd_return(t)
    \/ \E t \in Callers : dc_access(t)
    \/ \E t \in Callers : call_to_dict(t)

Spec == Init /\ [][Next]_allvars

(* ------------------------- vocabulary of the claims -------------------- *)

Live == instance = "live"
AllIdle == \A t \in Callers : pc[t] = "idle"

\* caller t's last completed call was op
Did(t, op) == ret[t] # None /\ ret[t].op = op
\* ... and returned a value / raised
GotValue(t, op) == Did(t, op) /\ ret[t].kind = "value"
GotError(t, op) == Did(t, op) /\ ret[t].kind = "error"

\* whether the credentials, and element i under them, decrypt
CredentialsDecrypt == DecryptCredentials(credentials, privateKey).ok
ElementDecrypts(i) ==
    de_json_decrypted(ElemToDict(data[i]),
                      DecryptCredentials(credentials, privateKey).value).ok
AllDecrypt ==
    /\ CredentialsDecrypt
    /\ \A i \in 1..Len(data) : ElementDecrypts(i)

\* the decrypted counterpart of an encrypted element, under the cached
\* Credentials
Counterpart(e) == de_json_decrypted(ElemToDict(e), cred_decrypted).value

\* list l corresponds to data one to one, position by position
Corresponds(l) ==
    /\ Len(l) = Len(data)
    /\ \A i \in 1..Len(data) :
          /\ l[i].type = data[i].type
          /\ l[i] = Counterpart(data[i])

(* -------------------------------- claims ------------------------------- *)

\* C1: a decrypted_data call that comes after a successful one returns a list
\* equal by value to the earlier result and finds the cache set, and a call
\* that finds the cache set does no decryption work (no de_json_decrypted
\* call, no decrypted_credentials access) before it returns.
C1_SecondAccessIdempotent ==
    [][\A t \in Callers :
          (pc[t] = "dd_return" /\ pc'[t] = "idle") =>
             /\ hit[t] => work[t] = 0
             /\ GotValue(t, "decrypted_data") =>
                   /\ hit[t]
                   /\ ret'[t].kind = "value"
                   /\ ret'[t].value.elems = ret[t].value.elems]_vars

\* C1 witness: one caller alone has made two decrypted_data calls on data
\* holding a passport element, the second served from the cache.
C1_Witness ==
    \E t \in Callers :
        /\ GotValue(t, "decrypted_data") /\ hit[t] /\ pc[t] = "idle"
        /\ calls = 2 /\ passes = 1
        /\ \E i \in 1..Len(data) : data[i].type = "passport"
        /\ \A u \in Callers \ {t} : ret[u] = None /\ pc[u] = "idle"

\* C2 (as claimed): on an instance whose data decrypts, at most one pass over
\* data calling de_json_decrypted is performed, however the callers
\* interleave: de_json_decrypted is called at most once per element of data.
C2_AtMostOnePass == (Live /\ AllDecrypt) => elemCalls <= Len(data)

\* C3 (as claimed): once all callers have returned from decrypted_data on an
\* instance whose non-empty data decrypts, every list a caller was handed is
\* the very object stored in _decrypted_data.
C3_SameFinalObject ==
    (AllIdle /\ Live /\ AllDecrypt /\ Len(data) > 0) =>
        \A t \in Callers :
            GotValue(t, "decrypted_data") => ret[t].value.id = _decrypted_data.id

\* C4: every list decrypted_data returns or caches has the length of data and
\* holds at each index the decrypted counterpart of the element of data at
\* that index, with the same type.
C4_PositionalCorrespondence ==
    /\ _decrypted_data # None => Corresponds(_decrypted_data.elems)
    /\ \A t \in Callers :
          GotValue(t, "decrypted_data") => Corresponds(ret[t].value.elems)

\* C4 witness: a caller was returned the list for a two element data of
\* different types, a passport followed by a phone number.
C4_Witness ==
    \E t \in Callers :
        /\ GotValue(t, "decrypted_data")
        /\ Len(data) = 2
        /\ data[1].type = "passport" /\ data[2].type = "phone_number"

\* C5: when the credentials or some element of a non-empty data do not
\* decrypt, _decrypted_data is None in every state and every completed
\* decrypted_data call has raised: no list is stored or returned.
C5_NoPartialResult ==
    (Live /\ Len(data) > 0 /\ ~AllDecrypt) =>
        /\ _decrypted_data = None
        /\ \A t \in Callers : Did(t, "decrypted_data") => ret[t].kind = "error"

\* C5 witness: a call raised at the second element after the first element
\* had been decrypted.
C5_Witness ==
    \E t \in Callers :
        /\ GotError(t, "decrypted_data")
        /\ Len(acc[t]) = 1 /\ idx[t] = 2
        /\ _decrypted_data = None

\* C6: right after construction nothing has been decrypted (_decrypted_data
\* is None, no Credentials cached, no decryption run), and an error is only
\* ever raised by decrypted_data or decrypted_credentials.
C6_ConstructionIsLazy ==
    /\ (Live /\ calls = 0) =>
          /\ _decrypted_data = None
          /\ cred_decrypted = None
          /\ credRuns = 0 /\ elemCalls = 0
    /\ \A t \in Callers :
          (ret[t] # None /\ ret[t].kind = "error") =>
              ret[t].op \in {"decrypted_data", "decrypted_credentials"}

\* C6 witness: an instance was constructed from data that cannot be
\* decrypted, and the failure surfaced at the first access.
C6_Witness ==
    /\ Live /\ Len(data) > 0 /\ ~AllDecrypt
    /\ calls = 1
    /\ \E t \in Callers : GotError(t, "decrypted_data")

\* C7 (as claimed): a list is cached or returned by decrypted_data only after
\* the credentials were computed, so never when they cannot be decrypted.
C7_CredentialsFirst ==
    (\/ _decrypted_data # None
     \/ \E t \in Callers : GotValue(t, "decrypted_data")) =>
        /\ credRuns >= 1
        /\ CredentialsDecrypt
        /\ cred_decrypted # None

C9_CacheNeverReplaced ==
    [][(_decrypted_data # None /\ Len(data) > 0) =>
           _decrypted_data' = _decrypted_data]_vars

\* C10: every to_dict result has exactly the keys data and credentials, its
\* data entry is the to_dict of each encrypted element of data in order and
\* its credentials entry is the encrypted credentials.
C10_ToDictEncrypted ==
    \A t \in Callers :
        GotValue(t, "to_dict") =>
            /\ DOMAIN ret[t].value = {"data", "credentials"}
            /\ ret[t].value["data"] = [i \in 1..Len(data) |-> ElemToDict(data[i])]
            /\ ret[t].value["credentials"] = CredToDict(credentials)

\* C10 witness: one caller alone decrypted data holding a passport element
\* and called to_dict afterwards.
C10_Witness ==
    \E t \in Callers :
        /\ GotValue(t, "to_dict")
        /\ _decrypted_data # None
        /\ \E i \in 1..Len(data) : data[i].type = "passport"
        /\ \A u \in Callers \ {t} : ret[u] = None /\ pc[u] = "idle"

\* every element of data is a phone number
AllPhone == \A i \in 1..Len(data) : data[i].type = "phone_number"

\* the only accessor call begun so far is a decrypted_data
OnlyDecryptedDataCalled ==
    /\ calls = 1
    /\ \E t \in Callers : pc[t] # "idle" \/ Did(t, "decrypted_data")

\* C11 (as claimed): a decrypted_data access on data made of phone numbers
\* only invokes no decryption primitive at all, neither the credentials
\* decryption nor a field decryption.
C11_NoPrimitiveAtAll ==
    (Live /\ AllPhone /\ OnlyDecryptedDataCalled) =>
        credRuns = 0 /\ fieldDecrypts = 0

\* C11 (amended): on data made of phone numbers only, no field decryption is
\* invoked and decrypted_data returns the elements as they are; for a
\* non-empty data the credentials decryption has nevertheless run and
\* succeeded before a list is returned.
C11_PhoneNumbersPassThrough ==
    (Live /\ AllPhone) =>
        /\ fieldDecrypts = 0
        /\ \A t \in Callers :
              GotValue(t, "decrypted_data") =>
                  /\ ret[t].value.elems = data
                  /\ Len(data) > 0 =>
                        /\ credRuns >= 1
                        /\ CredentialsDecrypt
                        /\ cred_decrypted # None

\* C11 witness: decrypted_data returned the list for two phone numbers after
\* one run of the credentials decryption.
C11_Witness ==
    /\ Live /\ AllPhone /\ Len(data) = 2
    /\ credRuns = 1 /\ elemCalls = 2
    /\ \E t \in Callers : GotValue(t, "decrypted_data")

\* data is not empty and the credentials or one of the elements do not decrypt
Undecryptable == Live /\ Len(data) > 0 /\ ~AllDecrypt

\* the error every decrypted_data access on undecryptable data ends with:
\* the credentials' error, or else the first failing element's
ExpectedError ==
    IF ~CredentialsDecrypt
    THEN DecryptCredentials(credentials, privateKey).error
    ELSE LET creds == DecryptCredentials(credentials, privateKey).value
             bad == {i \in 1..Len(data) :
                        ~de_json_decrypted(ElemToDict(data[i]), creds).ok}
             first == CHOOSE i \in bad : \A j \in bad : i <= j
         IN de_json_decrypted(ElemToDict(data[first]), creds).error

\* C12: on undecryptable data every decrypted_data access begins exactly one
\* new pass (the failure is not cached), no step inside an access begins
\* another one or decrypts an element twice (no retry), and every access ends
\* by raising the same error and leaving _decrypted_data None.
C12_FailureNotCachedNotRetried ==
    [][Undecryptable =>
          \A t \in Callers :
             /\ (pc[t] = "idle" /\ pc'[t] # "idle") =>
                   /\ pc'[t] = "dd_creds"
                   /\ passes' = passes + 1
             /\ (pc[t] # "idle" /\ pc'[t] # pc[t]) =>
                   /\ passes' = passes
                   /\ work'[t] <= 2 * idx[t]
             /\ (pc[t] # "idle" /\ pc'[t] = "idle") =>
                   /\ ret'[t] = Raised("decrypted_data", ExpectedError)
                   /\ _decrypted_data' = None]_vars

\* C12 witness: one caller alone made two decrypted_data accesses, each a
\* pass of its own, and the second raised after the first element had been
\* decrypted.
C12_Witness ==
    \E t \in Callers :
        /\ GotError(t, "decrypted_data") /\ pc[t] = "idle"
        /\ calls = 2 /\ passes = 2
        /\ idx[t] = 2 /\ Len(acc[t]) = 1
        /\ \A u \in Callers \ {t} : ret[u] = None /\ pc[u] = "idle"

(* ------------- two PassportData built from the same payload ----------- *)

MaxTwinCalls == 3

Twins == 1..2

\* lines 105-110 run to the end by one caller: the comprehension from
\* position i on, with the credentials cache and the list built so far
RECURSIVE Comprehension(_, _, _, _)
Comprehension(d, i, cache, list) ==
    IF i > Len(d)
    THEN [ok |-> TRUE, cache |-> cache, list |-> list, error |-> ""]
    ELSE LET c == decrypted_credentials(cache)
         IN IF ~c.result.ok
            THEN [ok |-> FALSE, cache |-> c.cache, list |-> list,
                  error |-> c.result.error]
            ELSE LET e == de_json_decrypted(ElemToDict(d[i]), c.result.value)
                 IN IF ~e.ok
                    THEN [ok |-> FALSE, cache |-> c.cache, list |-> list,
                          error |-> e.error]
                    ELSE Comprehension(d, i + 1, c.cache,
                                       Collect(list, e.value))

\* PassportData.decrypted_data on the object o, run without interruption
Twin_decrypted_data(o) ==
    IF NeedsDecryption(o._decrypted_data)
    THEN LET r == Comprehension(o.data, 1, o.cache, <<>>)
         IN IF r.ok
            THEN [o EXCEPT !._decrypted_data = [id |-> 0, elems |-> r.list],
                           !.cache = r.cache,
                           !.dd = Returned("decrypted_data", r.list)]
            ELSE [o EXCEPT !._decrypted_data =
                               SlotAfterRaise(o._decrypted_data, r.list),
                           !.cache = r.cache,
                           !.dd = Raised("decrypted_data", r.error)]
    ELSE [o EXCEPT !.dd = IF o._decrypted_data = None
                          THEN Returned("decrypted_data", None)
                          ELSE Returned("decrypted_data",
                                        o._decrypted_data.elems)]

\* PassportData.decrypted_credentials on the object o
Twin_decrypted_credentials(o) ==
    LET c == decrypted_credentials(o.cache)
    IN [o EXCEPT !.cache = c.cache,
                 !.dc = IF c.result.ok
                        THEN Returned("decrypted_credentials", c.result.value)
                        ELSE Raised("decrypted_credentials", c.result.error)]

\* the payload and the key are chosen; no object is built yet
InitPair ==
    /\ privateKey \in PrivateKeys
    /\ \E json \in JsonInputs \ {None} :
          /\ twins = [json |-> json, obj |-> [k \in Twins |-> None]]
          /\ data = ElemDeList(json["data"])
          /\ credentials = json["credentials"]
    /\ instance = "unborn"
    /\ _decrypted_data = None
    /\ _id_attrs = None
    /\ cred_decrypted = None
    /\ pc = [t \in Callers |-> "idle"]
    /\ idx = [t \in Callers |-> 0]
    /\ acc = [t \in Callers |-> <<>>]
    /\ arg = [t \in Callers |-> None]
    /\ ret = [t \in Callers |-> None]
    /\ hit = [t \in Callers |-> FALSE]
    /\ work = [t \in Callers |-> 0]
    /\ calls = 0 /\ passes = 0 /\ credRuns = 0 /\ elemCalls = 0
    /\ fieldDecrypts = 0 /\ nextId = 1
    /\ CredIdle /\ CmdIdle /\ MediaIdle /\ PollIdle
    /\ CtxIdle /\ ChatIdle

pairFrame == <<vars, credVars, cmdVars, mediaVars, pollVars,
              ctxVars, chatVars>>

\* PassportData.de_json(json, bot) for the k-th object
TwinConstruct(k) ==
    /\ twins.obj[k] = None
    /\ LET self == PassportData_init(ElemDeList(twins.json["data"]),
                                     twins.json["credentials"])
       IN twins' = [twins EXCEPT !.obj[k] =
              [data |-> self.data, credentials |-> self.credentials,
               _decrypted_data |-> self._decrypted_data,
               cache |-> None, dd |-> None, dc |-> None, log |-> <<>>]]
    /\ UNCHANGED pairFrame

TwinCanCall(k) ==
    twins.obj[k] # None /\ Len(twins.obj[k].log) < MaxTwinCalls

\* an access of decrypted_data on the k-th object
TwinDecryptedData(k) ==
    /\ TwinCanCall(k)
    /\ twins' = [twins EXCEPT !.obj[k] =
           [Twin_decrypted_data(@) EXCEPT !.log = Append(@, "dd")]]
    /\ UNCHANGED pairFrame

\* an access of decrypted_credentials on the k-th object
TwinDecryptedCredentials(k) ==
    /\ TwinCanCall(k)
    /\ twins' = [twins EXCEPT !.obj[k] =
           [Twin_decrypted_credentials(@) EXCEPT !.log = Append(@, "dc")]]
    /\ UNCHANGED pairFrame

NextPair ==
    \E k \in Twins :
        \/ TwinConstruct(k)
        \/ TwinDecryptedData(k)
        \/ TwinDecryptedCredentials(k)

SpecPair == InitPair /\ [][NextPair]_allvars

\* two outcomes of the same accessor are both values or both errors, and equal
SameOutcome(a, b) == a.kind = b.kind /\ a.value = b.value

BothBuilt == twins # None /\ \A k \in Twins : twins.obj[k] # None

\* C13: whatever accessors were called on either object, how often and in
\* which order, the two objects' decrypted_credentials outcomes are equal and
\* their decrypted_data outcomes are equal.
C13_TwinsAgree ==
    BothBuilt =>
        LET a == twins.obj[1]
            b == twins.obj[2]
        IN /\ (a.dd # None /\ b.dd # None) => SameOutcome(a.dd, b.dd)
           /\ (a.dc # None /\ b.dc # None) => SameOutcome(a.dc, b.dc)
           /\ a.credentials = b.credentials /\ a.credentials = credentials

\* C13 witness: the accessors were called three times on one object and
\* twice, in the other order, on the other, and both returned a list of two
\* decrypted elements.
C13_Witness ==
    /\ BothBuilt
    /\ twins.obj[1].log = <<"dd", "dd", "dc">>
    /\ twins.obj[2].log = <<"dc", "dd">>
    /\ twins.obj[1].dd.kind = "value" /\ twins.obj[2].dd.kind = "value"
    /\ Len(twins.obj[2].dd.value) = 2
    /\ twins.obj[2].data[1].type = "passport"

(* ---------------- the credentials decryption, step by step ------------ *)

Stages == <<"RAW", "SECRET_RECOVERED", "PAYLOAD_DECRYPTED", "PARSED">>

\* every EncryptedCredentials over Bytes
AllCredentials == [secret : Bytes, data : Bytes, hash : Bytes]

\* a verification that lets every plaintext through
HashMatches_unchecked(plain, hash) == TRUE

\* 4.2 step 4: sha256(plaintext) == EncryptedCredentials.hash
HashMatches(plain, hash) == Hash(plain) = hash

\* an EncryptedCredentials and a key are given; nothing is decrypted yet
InitCred ==
    /\ privateKey \in PrivateKeys
    /\ credentials \in AllCredentials
    /\ cred_stage = "RAW"
    /\ cred_secret = None
    /\ cred_plain = None
    /\ cred_out = None
    /\ cred_decrypted = None
    /\ instance = "unborn"
    /\ data = <<>>
    /\ _decrypted_data = None
    /\ _id_attrs = None
    /\ pc = [t \in Callers |-> "idle"]
    /\ idx = [t \in Callers |-> 0]
    /\ acc = [t \in Callers |-> <<>>]
    /\ arg = [t \in Callers |-> None]
    /\ ret = [t \in Callers |-> None]
    /\ hit = [t \in Callers |-> FALSE]
    /\ work = [t \in Callers |-> 0]
    /\ calls = 0 /\ passes = 0 /\ credRuns = 0 /\ elemCalls = 0
    /\ fieldDecrypts = 0 /\ nextId = 1
    /\ TwinsIdle /\ CmdIdle /\ MediaIdle /\ PollIdle
    /\ CtxIdle /\ ChatIdle

credFrame == <<privateKey, instance, data, credentials, _decrypted_data, _id_attrs, pc,
               idx, acc, arg, ret, hit, work, calls, passes, credRuns,
               elemCalls, fieldDecrypts, nextId,
               twinVars, cmdVars, mediaVars, pollVars, ctxVars, chatVars>>

\* 4.2 step 1: RSA-decrypt the secret with the private key
RecoverSecret ==
    /\ cred_stage = "RAW" /\ cred_out = None
    /\ IF privateKey = "none"
       THEN /\ cred_out' = Err("ConfigurationError", cred_stage)
            /\ UNCHANGED <<cred_stage, cred_secret>>
       ELSE /\ cred_secret' = Some(DecryptRSA(credentials.secret, privateKey))
            /\ cred_stage' = "SECRET_RECOVERED"
            /\ UNCHANGED cred_out
    /\ UNCHANGED <<cred_plain, cred_decrypted, credFrame>>

\* 4.2 steps 2 and 3: derive the key, AES-decrypt the data
DecryptPayload ==
    /\ cred_stage = "SECRET_RECOVERED"
    /\ cred_plain' = Some(DecryptAES(credentials.data,
                              DeriveKey(cred_secret[1], credentials.data)))
    /\ cred_stage' = "PAYLOAD_DECRYPTED"
    /\ UNCHANGED <<cred_secret, cred_out, cred_decrypted, credFrame>>

\* 4.2 steps 4 and 5: verify the hash, then parse and cache
VerifyAndParse ==
    /\ cred_stage = "PAYLOAD_DECRYPTED" /\ cred_out = None
    /\ IF HashMatches(cred_plain[1], credentials.hash)
       THEN /\ cred_stage' = "PARSED"
            /\ cred_out' = Ok(ParseCredentials(cred_plain[1]))
            /\ cred_decrypted' = ParseCredentials(cred_plain[1])
       ELSE /\ cred_out' = Err("IntegrityError", cred_stage)
            /\ UNCHANGED <<cred_stage, cred_decrypted>>
    /\ UNCHANGED <<cred_secret, cred_plain, credFrame>>

NextCred == RecoverSecret \/ DecryptPayload \/ VerifyAndParse

SpecCred == InitCred /\ [][NextCred]_allvars

\* the stage that follows st
NextStage(st) ==
    CHOOSE n \in {Stages[i] : i \in 1..Len(Stages)} :
        \E i \in 1..(Len(Stages) - 1) : Stages[i] = st /\ Stages[i + 1] = n

\* C14: the stage only ever moves to the next of RAW, SECRET_RECOVERED,
\* PAYLOAD_DECRYPTED, PARSED; PARSED and a Credentials value come only with a
\* plaintext whose hash equals EncryptedCredentials.hash; on a mismatch the
\* run ends at PAYLOAD_DECRYPTED with an IntegrityError, and nothing is
\* produced or cached.
C14_LinearStages ==
    [][/\ cred_stage' # cred_stage =>
             cred_stage # "PARSED" /\ cred_stage' = NextStage(cred_stage)
       /\ (cred_stage' = "PARSED" \/ cred_decrypted' # None) =>
             /\ cred_stage' = "PARSED"
             /\ Hash(cred_plain'[1]) = credentials.hash
             /\ cred_out' = Ok(cred_decrypted')
       /\ (cred_stage' = "PAYLOAD_DECRYPTED" /\ cred_out' # None) =>
             /\ Hash(cred_plain'[1]) # credentials.hash
             /\ cred_out' = Err("IntegrityError", "PAYLOAD_DECRYPTED")
             /\ cred_decrypted' = None
       /\ cred_out' # None =>
             cred_out' = DecryptCredentials(credentials, privateKey)]_allvars

\* C14 witness: a run under the right key went through every stage and
\* produced the Credentials with nonce 3.
C14_Witness ==
    /\ cred_stage = "PARSED"
    /\ privateKey = "right"
    /\ credentials = ValidCredentials
    /\ cred_secret # None /\ cred_plain = Some(3)
    /\ cred_out = Ok(ParseCredentials(3))

(* ---------------- telegram/ext/commandhandler.py ----------------------- *)

\* longest message text drawn as input
MaxText == 4

\* a str is the sequence of its characters
Chars == {"/", "a", "A", "@", " "}
Texts == SeqsUpTo(Chars, MaxText)

\* Python values that check_update, the callback and handle_update return
PyNone == [t |-> "none", v |-> <<>>]
PyBool(b) == [t |-> "bool", v |-> b]
PyStr(str) == [t |-> "str", v |-> str]
PyList(elems) == [t |-> "list", v |-> elems]
Truthy(x) ==
    IF x.t = "bool" THEN x.v
    ELSE IF x.t \in {"str", "list"} THEN x.v # <<>>
    ELSE FALSE
SameValue(x, y) == x.t = y.t /\ x.v = y.v

\* str.startswith for a one-character prefix
StartsWith(str, ch) == Len(str) >= 1 /\ str[1] = ch

\* ch in str
Contains(str, ch) == \E i \in 1..Len(str) : str[i] = ch

\* str.split(sep) for a one-character separator
RECURSIVE Split(_, _)
Split(str, sep) ==
    IF ~Contains(str, sep) THEN <<str>>
    ELSE LET i == CHOOSE j \in 1..Len(str) :
                      str[j] = sep /\ \A k \in 1..(j - 1) : str[k] # sep
         IN <<SubSeq(str, 1, i - 1)>> \o Split(SubSeq(str, i + 1, Len(str)), sep)

\* a lower() that leaves every character as it is
Lower_unfolded(str) == str

\* str.lower
Lower(str) == [i \in 1..Len(str) |-> IF str[i] = "A" THEN "a" ELSE str[i]]

\* a Message with its text (None or Some(str)); an Update with its two
\* optional messages; an object that is not an Update
Message(text) == [text |-> text]
Messages == {Message(None)} \cup {Message(Some(x)) : x \in Texts}
EditedSamples == {Message(Some(<<"/", "a">>)), Message(Some(<<"/", "A">>))}
NotAnUpdate == [isUpdate |-> FALSE, message |-> None, edited_message |-> None]
Updates ==
    {NotAnUpdate} \cup
    {[isUpdate |-> TRUE, message |-> m, edited_message |-> None] :
        m \in Messages \cup {None}} \cup
    {[isUpdate |-> TRUE, message |-> None, edited_message |-> e] :
        e \in Messages} \cup
    {[isUpdate |-> TRUE, message |-> m, edited_message |-> e] :
        m \in Messages, e \in EditedSamples}

Commands == {<<"a">>, <<"A">>}
Usernames == {<<"a">>, <<"A">>}

\* keyword arguments of a callback: each keyword is Absent or Some(value)
Keywords == {"args", "update_queue", "job_queue"}
Absent == None

\* what Handler.collect_optional_args(dispatcher) hands back: the keyword
\* arguments asked for by pass_update_queue and pass_job_queue
OptionalArgs ==
    {[k \in Keywords |-> Absent],
     [k \in Keywords |-> IF k = "update_queue" THEN Some("queue") ELSE Absent]}

\* what the callback may return
CallbackResults == {PyNone, PyStr(<<"a">>)}

\* CommandHandler.__init__
CommandHandler_init(command, allow_edited, pass_args) ==
    [command |-> command, allow_edited |-> allow_edited,
     pass_args |-> pass_args]

\* a handler that takes an edited message whatever allow_edited says
AcceptedMessage_any_edited(h, u) ==
    IF u.message # None THEN u.message ELSE u.edited_message

\* line 69: update.message or update.edited_message and self.allow_edited,
\* as the message it stands for (None when the test is falsy)
AcceptedMessage(h, u) ==
    IF u.message # None THEN u.message
    ELSE IF u.edited_message # None /\ h.allow_edited THEN u.edited_message
    ELSE None

\* a command name that keeps the @name part
CommandOf_with_target(text) == Split(Tail(text), " ")[1]

\* line 73: message.text[1:].split(' ')[0].split('@')[0]
CommandOf(text) == Split(Split(Tail(text), " ")[1], "@")[1]

\* lines 68-76: CommandHandler.check_update
check_update(h, u) ==
    IF u.isUpdate /\ AcceptedMessage(h, u) # None
    THEN LET message == IF u.message # None THEN u.message
                        ELSE u.edited_message
         IN IF message.text = None THEN PyNone
            ELSE IF message.text[1] = <<>> THEN PyStr(message.text[1])
            ELSE IF ~StartsWith(message.text[1], "/") THEN PyBool(FALSE)
            ELSE PyBool(CommandOf(message.text[1]) = h.command)
    ELSE PyBool(FALSE)

\* an args list without the empty strings
ArgsOf_no_empty(text) ==
    SelectSeq(Tail(Split(text, " ")), LAMBDA piece : piece # <<>>)

\* line 92: message.text.split(' ')[1:]
ArgsOf(text) == Tail(Split(text, " "))

\* lines 79-94: CommandHandler.handle_update, as what it does to the callback
\* (called or not, and with what) for the callback result res
handle_update(h, u, username, optional_args, res) ==
    LET message == IF u.message # None THEN u.message ELSE u.edited_message
        command == Split(Tail(message.text[1]), " ")[1]
        calling_me ==
            IF Contains(command, "@")
            THEN Lower(Split(command, "@")[2]) = Lower(username)
            ELSE TRUE
        kwargs ==
            IF h.pass_args
            THEN [optional_args EXCEPT
                     !["args"] = Some(ArgsOf(message.text[1]))]
            ELSE optional_args
    IN IF ~calling_me
       THEN [calls |-> <<>>, returned |-> PyNone]
       ELSE [calls |-> <<[bot |-> [username |-> username], update |-> u,
                          kwargs |-> kwargs, returned |-> res]>>,
             returned |-> res]


\* no PassportData exists
PassportUnborn ==
    /\ privateKey = "none"
    /\ instance = "unborn"
    /\ data = <<>>
    /\ credentials = None
    /\ _decrypted_data = None
    /\ _id_attrs = None
    /\ cred_decrypted = None
    /\ pc = [t \in Callers |-> "idle"]
    /\ idx = [t \in Callers |-> 0]
    /\ acc = [t \in Callers |-> <<>>]
    /\ arg = [t \in Callers |-> None]
    /\ ret = [t \in Callers |-> None]
    /\ hit = [t \in Callers |-> FALSE]
    /\ work = [t \in Callers |-> 0]
    /\ calls = 0 /\ passes = 0 /\ credRuns = 0 /\ elemCalls = 0
    /\ fieldDecrypts = 0 /\ nextId = 1

\* a CommandHandler has been constructed; no update has arrived
InitCmd ==
    /\ \E command \in Commands, allow_edited \in BOOLEAN, pass_args \in BOOLEAN :
          handler = CommandHandler_init(command, allow_edited, pass_args)
    /\ update = None
    /\ bot_username = None
    /\ checked = None
    /\ callback_calls = <<>>
    /\ handled = None
    /\ PassportUnborn /\ TwinsIdle /\ CredIdle /\ MediaIdle /\ PollIdle
    /\ CtxIdle /\ ChatIdle

cmdFrame == <<vars, twinVars, credVars, mediaVars, pollVars,
              ctxVars, chatVars>>

\* the dispatcher asks the handler about an update
CheckUpdate ==
    /\ update = None
    /\ \E u \in Updates :
          /\ update' = u
          /\ checked' = check_update(handler, u)
    /\ UNCHANGED <<handler, bot_username, callback_calls, handled, cmdFrame>>

\* the dispatcher, having got a truthy answer, lets the handler handle the
\* update; username is dispatcher.bot.username
HandleUpdate(username, optional_args, res) ==
    /\ checked # None /\ Truthy(checked)
    /\ handled = None
    /\ LET r == handle_update(handler, update, username, optional_args, res)
       IN /\ callback_calls' = callback_calls \o r.calls
          /\ handled' = r.returned
    /\ bot_username' = username
    /\ UNCHANGED <<handler, update, checked, cmdFrame>>

NextCmd ==
    \/ CheckUpdate
    \/ \E username \in Usernames, optional_args \in OptionalArgs,
          res \in CallbackResults :
          HandleUpdate(username, optional_args, res)

SpecCmd == InitCmd /\ [][NextCmd]_allvars

\* the command name of a text that starts with '/': the longest run of
\* characters after the '/' that holds neither a space nor an '@'
CommandName(text) ==
    LET rest == Tail(text)
        n == CHOOSE m \in 0..Len(rest) :
                 /\ \A i \in 1..m : rest[i] \notin {" ", "@"}
                 /\ m = Len(rest) \/ rest[m + 1] \in {" ", "@"}
    IN SubSeq(rest, 1, n)

\* the message a handler looks at: the new one, else the edited one if it
\* takes edited messages
Considered(h, u) ==
    IF u.message # None THEN u.message
    ELSE IF h.allow_edited THEN u.edited_message ELSE None

Checked == checked # None
Handled == handled # None

\* C15: check_update is truthy exactly for an Update whose considered
\* message has a text that starts with '/' and whose command name equals the
\* handler's command; it is False for what is not an Update, and falsy for no
\* text, a text without the leading '/', and another command name.
C15_CheckUpdateAccepts ==
    Checked =>
        LET m == Considered(handler, update)
            hasText == update.isUpdate /\ m # None /\ m.text # None
            slash == hasText /\ StartsWith(m.text[1], "/")
            named == slash /\ CommandName(m.text[1]) = handler.command
        IN /\ Truthy(checked) <=> named
           /\ ~update.isUpdate => SameValue(checked, PyBool(FALSE))
           /\ (slash /\ ~named) => SameValue(checked, PyBool(FALSE))

\* C15 witness: an Update whose message text names the command and a target
\* bot was accepted.
C15_Witness ==
    /\ Checked /\ Truthy(checked)
    /\ update.message # None
    /\ update.message.text = Some(<<"/", "A", "@", "a">>)
    /\ handler.command = <<"A">>

\* C16 (as claimed): once handle_update has run on an update that
\* check_update accepted, the callback has been called exactly once, with
\* (dispatcher.bot, update), and handle_update returned the callback's result.
C16_CallbackCalledOnce ==
    (Handled /\ Truthy(checked)) =>
        /\ Len(callback_calls) = 1
        /\ callback_calls[1].bot.username = bot_username
        /\ callback_calls[1].update = update
        /\ SameValue(handled, callback_calls[1].returned)

\* C17: an Update with only an edited message is refused when allow_edited
\* is False and gets the answer its edited message would get as a new
\* message when allow_edited is True; an Update with a message gets the
\* answer of that message alone, whatever allow_edited is.
C17_EditedOnlyIfAllowed ==
    (Checked /\ update.isUpdate) =>
        LET asNew(m) == [isUpdate |-> TRUE, message |-> m,
                         edited_message |-> None]
            other == [handler EXCEPT !.allow_edited = ~@]
        IN /\ (update.message = None /\ update.edited_message # None) =>
                 IF handler.allow_edited
                 THEN /\ SameValue(checked,
                             check_update(handler, asNew(update.edited_message)))
                      /\ Truthy(checked) <=>
                            /\ update.edited_message.text # None
                            /\ StartsWith(update.edited_message.text[1], "/")
                            /\ CommandName(update.edited_message.text[1])
                                   = handler.command
                 ELSE ~Truthy(checked)
           /\ update.message # None =>
                 /\ SameValue(checked, check_update(other, update))
                 /\ SameValue(checked,
                        check_update(handler, asNew(update.message)))

\* C17 witness: a handler that allows edited messages accepted an Update
\* that carries only an edited message.
C17_Witness ==
    /\ Checked /\ Truthy(checked)
    /\ handler.allow_edited
    /\ update.message = None /\ update.edited_message # None

\* no piece holds a space, and the pieces joined by single spaces after the
\* first piece of the text give the text back
RECURSIVE JoinAfter(_, _)
JoinAfter(head, pieces) ==
    IF pieces = <<>> THEN head
    ELSE JoinAfter(head \o <<" ">> \o Head(pieces), Tail(pieces))

IsArgsOf(pieces, text) ==
    /\ \A i \in 1..Len(pieces) : ~Contains(pieces[i], " ")
    /\ \E n \in 0..Len(text) :
          /\ ~Contains(SubSeq(text, 1, n), " ")
          /\ JoinAfter(SubSeq(text, 1, n), pieces) = text

\* C18: every call handle_update makes to the callback carries, when
\* pass_args is True, the keyword args holding the pieces of the message
\* text between single spaces without the first piece, and carries no args
\* keyword when pass_args is False.
C18_ArgsPassed ==
    \A i \in 1..Len(callback_calls) :
        LET call == callback_calls[i]
            m == IF call.update.message # None THEN call.update.message
                 ELSE call.update.edited_message
        IN IF handler.pass_args
           THEN /\ call.kwargs["args"] # Absent
                /\ IsArgsOf(call.kwargs["args"][1], m.text[1])
           ELSE call.kwargs["args"] = Absent

\* C18 witness: the callback got two empty strings as args for a command
\* followed by two spaces.
C18_Witness ==
    /\ Len(callback_calls) = 1
    /\ handler.pass_args
    /\ update.message # None
    /\ update.message.text = Some(<<"/", "a", " ", " ">>)
    /\ callback_calls[1].kwargs["args"] = Some(<< <<>>, <<>> >>)

(* ---------------- telegram/files/inputmedia.py ------------------------- *)

MediaKinds == {"animation", "video", "audio"}

\* the telegram class whose instances __post_init__ unpacks, per kind
MediaClass(kind) ==
    IF kind = "animation" THEN "Animation"
    ELSE IF kind = "video" THEN "Video" ELSE "Audio"

\* the metadata fields of each kind
MetaFields(kind) ==
    IF kind = "audio" THEN {"duration", "performer", "title"}
    ELSE {"width", "height", "duration"}

\* the dataclass fields declared InitVar, which __init__ hands to
\* __post_init__: media and thumb for InputMediaAudio (lines 269-270), none
\* for InputMediaAnimation (lines 81-82) and InputMediaVideo (lines 197-204)
InitVars(kind) == IF kind = "audio" THEN {"media", "thumb"} ELSE {}

\* arguments: a telegram media object, a file-like object or a str for
\* media; optional metadata, each None or Some(value)
MediaObjects ==
    {[isa |-> c, file_id |-> "file_id", meta |-> mt] :
        c \in {"Animation", "Video", "Audio"},
        mt \in UNION {[MetaFields(k) -> {None, Some("object")}] : k \in MediaKinds}}
FileLike == [isa |-> "file"]
UrlString == [isa |-> "str", value |-> "url"]
MediaInputs(kind) ==
    {o \in MediaObjects : DOMAIN o.meta = MetaFields(kind)}
        \cup {FileLike, UrlString}
ThumbInputs == {None, FileLike, UrlString}
ExplicitInputs(kind) == [MetaFields(kind) -> {None, Some("explicit")}]

\* InputFile(obj, attach=True)
InputFile(obj) == [isa |-> "InputFile", attach |-> TRUE]

\* the isinstance branch, had it kept the values passed explicitly
FromMedia_unless_given(media, given) ==
    [f \in DOMAIN given |-> IF given[f] # None THEN given[f] ELSE media.meta[f]]

\* lines 96-98, 211-213, 282-284: the metadata is assigned from the media
\* object, over whatever the fields held
FromMedia(media, given) == [f \in DOMAIN given |-> media.meta[f]]

\* __post_init__(self, media, thumb) of the three classes, on the fields the
\* generated __init__ has stored in self
post_init(kind, self, media, thumb) ==
    LET afterMedia ==
            IF media.isa = MediaClass(kind)
            THEN [self EXCEPT !.media = [isa |-> "str", value |-> media.file_id],
                              !.meta = FromMedia(media, self.meta)]
            ELSE IF media.isa = "file"
            THEN [self EXCEPT !.media = InputFile(media)]
            ELSE [self EXCEPT !.media = media]
        afterThumb ==
            IF thumb # None
            THEN IF thumb.isa = "file"
                 THEN [afterMedia EXCEPT !.thumb = InputFile(thumb)]
                 ELSE [afterMedia EXCEPT !.thumb = thumb]
            ELSE afterMedia
    IN [afterThumb EXCEPT !.type = kind]

\* the __init__ that @dataclass generates: store the fields that are not
\* InitVar, then call __post_init__ with the InitVar ones; __post_init__
\* requires media, so the call fails when media is not among them
dataclass_init(kind, media, thumb, given) ==
    LET self == [type |-> None,
                 media |-> IF "media" \in InitVars(kind) THEN None ELSE media,
                 thumb |-> IF "thumb" \in InitVars(kind) THEN None ELSE thumb,
                 meta |-> given]
    IN IF "media" \in InitVars(kind)
       THEN [raised |-> None, object |-> post_init(kind, self, media, thumb)]
       ELSE [raised |-> Some("TypeError"), object |-> None]

\* nothing has been constructed
InitMedia ==
    /\ media_args = None
    /\ input_media = None
    /\ PassportUnborn /\ TwinsIdle /\ CredIdle /\ CmdIdle /\ PollIdle
    /\ CtxIdle /\ ChatIdle

mediaFrame == <<vars, twinVars, credVars, cmdVars, pollVars,
              ctxVars, chatVars>>

\* a call InputMedia<Kind>(media, thumb=..., <metadata>=...) with its result
Constructs(kind) ==
    \E media \in MediaInputs(kind), thumb \in ThumbInputs,
       given \in ExplicitInputs(kind) :
        /\ media_args' = [kind |-> kind, media |-> media, thumb |-> thumb,
                          given |-> given]
        /\ input_media' = dataclass_init(kind, media, thumb, given)

InputMediaAnimation ==
    /\ media_args = None
    /\ Constructs("animation")
    /\ UNCHANGED mediaFrame

InputMediaVideo ==
    /\ media_args = None
    /\ Constructs("video")
    /\ UNCHANGED mediaFrame

InputMediaAudio ==
    /\ media_args = None
    /\ Constructs("audio")
    /\ UNCHANGED mediaFrame

NextMedia == InputMediaAnimation \/ InputMediaVideo \/ InputMediaAudio

SpecMedia == InitMedia /\ [][NextMedia]_allvars

\* C19 (as claimed): constructed with a media object of its class, the
\* InputMedia has that object's file_id as media, and each metadata field
\* holds the explicitly passed value if there is one, else the object's.
C19_ExplicitMetadataKept ==
    (media_args # None /\ media_args.media.isa = MediaClass(media_args.kind)) =>
        /\ input_media.raised = None
        /\ input_media.object.media.isa = "str"
        /\ input_media.object.media.value = media_args.media.file_id
        /\ \A f \in MetaFields(media_args.kind) :
              input_media.object.meta[f] =
                  IF media_args.given[f] # None THEN media_args.given[f]
                  ELSE media_args.media.meta[f]

(* ---------------------- telegram/_poll.py ------------------------------ *)

\* most entities in a list drawn as input
MaxEntities == 2
\* largest entity offset drawn as input
MaxOffset == 1

EntityTypes == {"url", "bold"}

\* a MessageEntity object, and its JSON dict
MessageEntity(type, offset, length) ==
    [cls |-> "MessageEntity", type |-> type, offset |-> offset,
     length |-> length]
Entities ==
    {MessageEntity(ty, o, l) : ty \in EntityTypes, o \in 0..MaxOffset, l \in 1..2}
EntityDict(e) == [type |-> e.type, offset |-> e.offset, length |-> e.length]
EntityLists == SeqsUpTo(Entities, MaxEntities)

\* explanations: none, empty, plain, and one with a character outside the
\* Basic Multilingual Plane (two UTF-16 code units)
Explanations ==
    {PyNone, PyStr(<<>>), PyStr(<<"a", "b", "c">>),
     PyStr(<<"a", "U+1F600", "b">>)}

\* an argument left out of a call
Omitted == [t |-> "omitted", v |-> <<>>]

\* line 210: the default of explanation_entities
DefaultNone(x) == IF x.t = "omitted" THEN PyNone ELSE x

\* an __init__ that stores explanation_entities as given
OrEmptyList_as_given(x) == x

\* line 224: explanation_entities or []
OrEmptyList(x) == IF Truthy(x) THEN x ELSE PyList(<<>>)

\* Poll.__init__, lines 195-228 (the fields the explanation is about)
Poll_init(id, explanation, explanation_entities) ==
    [cls |-> "Poll", id |-> id,
     explanation |-> DefaultNone(explanation),
     explanation_entities |-> OrEmptyList(DefaultNone(explanation_entities))]

\* dict.get(key)
Get(d, key) == IF key \in DOMAIN d THEN d[key] ELSE PyNone

\* MessageEntity.de_list(data, bot): the entities of a list of dicts; what it
\* returns when there is no list is left open (None or an empty list)
de_list(x, whenMissing) ==
    IF x.t = "list"
    THEN PyList([i \in 1..Len(x.v) |->
                    MessageEntity(x.v[i].type, x.v[i].offset, x.v[i].length)])
    ELSE whenMissing

\* the JSON payloads of a poll: the id, and optionally the explanation and
\* the explanation_entities
PollPayloads ==
    {[k \in {"id"} \cup keys |->
         IF k = "id" THEN PyStr(<<"a">>)
         ELSE IF k = "explanation" THEN ex
         ELSE PyList([i \in 1..Len(es) |-> EntityDict(es[i])])] :
        keys \in SUBSET {"explanation", "explanation_entities"},
        ex \in Explanations \ {PyNone}, es \in EntityLists}

\* nothing has been constructed
InitPoll ==
    /\ poll_args = None
    /\ poll = None
    /\ parsed = None
    /\ PassportUnborn /\ TwinsIdle /\ CredIdle /\ CmdIdle /\ MediaIdle
    /\ CtxIdle /\ ChatIdle

pollFrame == <<vars, twinVars, credVars, cmdVars, mediaVars,
              ctxVars, chatVars>>

\* Poll(id, ..., explanation=..., explanation_entities=...)
PollConstruct ==
    /\ poll_args = None
    /\ \E ex \in Explanations \cup {Omitted},
          es \in {PyList(l) : l \in EntityLists} \cup {PyNone, Omitted} :
          /\ poll_args' = [via |-> "__init__", explanation |-> ex,
                           explanation_entities |-> es]
          /\ poll' = [object |-> Some(Poll_init(PyStr(<<"a">>), ex, es))]
    /\ UNCHANGED <<parsed, pollFrame>>

\* Poll.de_json(data, bot), lines 231-242
PollDeJson ==
    /\ poll_args = None
    /\ \E empty \in BOOLEAN, json \in PollPayloads,
          whenMissing \in {PyNone, PyList(<<>>)} :
          /\ poll_args' = [via |-> "de_json", empty |-> empty, data |-> json,
                           de_list_default |-> whenMissing]
          /\ poll' =
                IF empty THEN [object |-> None]
                ELSE [object |-> Some(Poll_init(
                        Get(json, "id"), Get(json, "explanation"),
                        de_list(Get(json, "explanation_entities"),
                                whenMissing)))]
    /\ UNCHANGED <<parsed, pollFrame>>

NextPoll == PollConstruct \/ PollDeJson

SpecPoll == InitPoll /\ [][NextPoll]_allvars

\* C20: every Poll, however constructed, has a list (possibly empty) as
\* explanation_entities, never None: an empty one when the argument was
\* omitted, None or empty, or the payload had no explanation_entities key.
C20_EntitiesAlwaysList ==
    (poll # None /\ poll.object # None) =>
        LET p == poll.object[1]
            noEntities ==
                IF poll_args.via = "__init__"
                THEN \/ poll_args.explanation_entities.t \in {"omitted", "none"}
                     \/ poll_args.explanation_entities.v = <<>>
                ELSE "explanation_entities" \notin DOMAIN poll_args.data
        IN /\ p.explanation_entities.t = "list"
           /\ noEntities => p.explanation_entities.v = <<>>

\* C20 witness: de_json of a payload without the explanation_entities key,
\* for which de_list handed back None, built a Poll with an empty list.
C20_Witness ==
    /\ poll # None /\ poll.object # None
    /\ poll_args.via = "de_json"
    /\ "explanation_entities" \notin DOMAIN poll_args.data
    /\ poll_args.de_list_default.t = "none"
    /\ SameValue(poll.object[1].explanation_entities, PyList(<<>>))

(* ------------- CommandHandler.handle_update and the '@name' ------------ *)

\* the text handle_update looked at
HandledText ==
    IF update.message # None THEN update.message.text[1]
    ELSE update.edited_message.text[1]

\* the command piece of a text: what follows the '/' up to the first space
CommandPiece(text) ==
    LET rest == Tail(text)
        n == CHOOSE m \in 0..Len(rest) :
                 /\ \A i \in 1..m : rest[i] # " "
                 /\ m = Len(rest) \/ rest[m + 1] = " "
    IN SubSeq(rest, 1, n)

\* the name a command piece is addressed to: what follows its first '@' up
\* to the next '@'
TargetName(piece) ==
    LET at == CHOOSE i \in 1..Len(piece) :
                  piece[i] = "@" /\ \A j \in 1..(i - 1) : piece[j] # "@"
        rest == SubSeq(piece, at + 1, Len(piece))
        n == CHOOSE m \in 0..Len(rest) :
                 /\ \A i \in 1..m : rest[i] # "@"
                 /\ m = Len(rest) \/ rest[m + 1] = "@"
    IN SubSeq(rest, 1, n)

\* two strings that differ at most in the case of their letters
EqualIgnoringCase(x, y) ==
    /\ Len(x) = Len(y)
    /\ \A i \in 1..Len(x) : x[i] = y[i] \/ {x[i], y[i]} = {"a", "A"}

C29_EncryptedStateUnchanged ==
    [][Live =>
          /\ data' = data
          /\ credentials' = credentials
          /\ _id_attrs' = _id_attrs
          /\ _id_attrs' = IdAttrs(data', credentials')]_vars

\* C29 witness: decrypted_data returned a list that differs from data,
\* decrypted_credentials returned too, and _id_attrs is still what __init__
\* computed.
C29_Witness ==
    /\ Live /\ Len(data) = 2
    /\ _id_attrs = <<"passport", "phone_number", credentials.hash>>
    /\ \E t \in Callers :
          /\ GotValue(t, "decrypted_data")
          /\ ret[t].value.elems # data
    /\ \E t \in Callers : GotValue(t, "decrypted_credentials")

(* ------------- Poll.parse_explanation_entity / _entities --------------- *)

\* characters that take two UTF-16 code units
Astral == {"U+1F600"}

\* str.encode("utf-16-le"): two bytes per code unit, one unit for a BMP
\* character, a high and a low surrogate for an astral one
UnitBytes(ch, part) == <<[ch |-> ch, part |-> part, byte |-> "low"],
                         [ch |-> ch, part |-> part, byte |-> "high"]>>
RECURSIVE Encode(_)
Encode(str) ==
    IF str = <<>> THEN <<>>
    ELSE (IF Head(str) \in Astral
          THEN UnitBytes(Head(str), "high_surrogate")
                   \o UnitBytes(Head(str), "low_surrogate")
          ELSE UnitBytes(Head(str), "bmp"))
         \o Encode(Tail(str))

\* bytes[a:b]
Slice(seq, a, b) ==
    LET lo == IF a > Len(seq) THEN Len(seq) ELSE a
        hi == IF b > Len(seq) THEN Len(seq) ELSE b
    IN IF hi <= lo THEN <<>> ELSE SubSeq(seq, lo + 1, hi)

\* bytes.decode("utf-16-le"): the characters, or an error on a truncated
\* unit or a surrogate without its partner
RECURSIVE Decode(_)
Decode(bytes) ==
    IF bytes = <<>> THEN Ok(<<>>)
    ELSE IF Len(bytes) < 2 THEN Err("UnicodeDecodeError", "decode")
    ELSE LET part == bytes[1].part
             wide == part = "high_surrogate" /\ Len(bytes) >= 4
                        /\ bytes[3].part = "low_surrogate"
             rest == Decode(SubSeq(bytes, IF wide THEN 5 ELSE 3, Len(bytes)))
         IN IF part # "bmp" /\ ~wide THEN Err("UnicodeDecodeError", "decode")
            ELSE IF ~rest.ok THEN rest
            ELSE Ok(<<bytes[1].ch>> \o rest.value)

\* a build whose str holds UTF-16 code units
NarrowBuild_always == TRUE

\* line 277: sys.maxunicode == 0xFFFF, which no Python 3.3+ build satisfies
NarrowBuild == FALSE

\* an explanation test that only looks for None
HasExplanation_not_none(p) == p.explanation.t # "none"

\* line 274: the truth value of self.explanation
HasExplanation(p) == Truthy(p.explanation)

\* Poll.parse_explanation_entity, lines 274-283
parse_explanation_entity(p, entity) ==
    IF ~HasExplanation(p) THEN Err("RuntimeError", "explanation")
    ELSE IF NarrowBuild
    THEN Ok(Slice(p.explanation.v, entity.offset,
                  entity.offset + entity.length))
    ELSE Decode(Slice(Encode(p.explanation.v), entity.offset * 2,
                      (entity.offset + entity.length) * 2))

\* Poll.parse_explanation_entities, lines 306-313: the dict as the set of
\* its (key, value) pairs; the first entity that fails ends the call
parse_explanation_entities(p, types) ==
    LET wanted == IF types.isNone THEN EntityTypes ELSE types.names
        keep == SelectSeq(p.explanation_entities.v,
                          LAMBDA e : e.type \in wanted)
        bad == {i \in 1..Len(keep) : ~parse_explanation_entity(p, keep[i]).ok}
    IN IF bad # {}
       THEN parse_explanation_entity(p,
                keep[CHOOSE i \in bad : \A j \in bad : i <= j])
       ELSE Ok({<<keep[i], parse_explanation_entity(p, keep[i]).value>> :
                   i \in 1..Len(keep)})

\* the types arguments: None, or a collection of type names
TypesInputs ==
    {[isNone |-> TRUE, names |-> {}]}
        \cup {[isNone |-> FALSE, names |-> ts] : ts \in SUBSET EntityTypes}

\* a Poll has been constructed
InitParse ==
    /\ \E ex \in Explanations, l \in EntityLists :
          /\ poll_args = [via |-> "__init__", explanation |-> ex,
                          explanation_entities |-> PyList(l)]
          /\ poll = [object |-> Some(Poll_init(PyStr(<<"a">>), ex, PyList(l)))]
    /\ parsed = None
    /\ PassportUnborn /\ TwinsIdle /\ CredIdle /\ CmdIdle /\ MediaIdle
    /\ CtxIdle /\ ChatIdle

\* poll.parse_explanation_entity(entity)
ParseEntity ==
    /\ parsed = None
    /\ \E entity \in Entities :
          parsed' = [op |-> "parse_explanation_entity", entity |-> entity,
                     result |-> parse_explanation_entity(poll.object[1], entity)]
    /\ UNCHANGED <<poll_args, poll, pollFrame>>

\* poll.parse_explanation_entities(types)
ParseEntities ==
    /\ parsed = None
    /\ \E types \in TypesInputs :
          parsed' = [op |-> "parse_explanation_entities", types |-> types,
                     result |-> parse_explanation_entities(poll.object[1], types)]
    /\ UNCHANGED <<poll_args, poll, pollFrame>>

NextParse == ParseEntity \/ ParseEntities

SpecParse == InitParse /\ [][NextParse]_allvars

Parsed == parsed # None

ThePoll == poll.object[1]

\* the poll has no explanation: None or the empty string
NoExplanation == ThePoll.explanation.t = "none" \/ ThePoll.explanation.v = <<>>

\* the entities of the poll whose type was asked for
Wanted(types) ==
    {ThePoll.explanation_entities.v[i] :
        i \in {j \in 1..Len(ThePoll.explanation_entities.v) :
                  \/ types.isNone
                  \/ ThePoll.explanation_entities.v[j].type \in types.names}}

\* C21: on a poll without explanation, parse_explanation_entity raises
\* RuntimeError for every entity and yields no text, and
\* parse_explanation_entities raises RuntimeError as soon as one entity of a
\* requested type exists.
C21_NoExplanationRaises ==
    (Parsed /\ NoExplanation) =>
        IF parsed.op = "parse_explanation_entity"
        THEN ~parsed.result.ok /\ parsed.result.error = "RuntimeError"
        ELSE Wanted(parsed.types) # {} =>
                ~parsed.result.ok /\ parsed.result.error = "RuntimeError"

\* C21 witness: parse_explanation_entities raised RuntimeError on a poll
\* whose explanation is the empty string and which has a url entity, asked
\* for url entities.
C21_Witness ==
    /\ Parsed /\ parsed.op = "parse_explanation_entities"
    /\ ThePoll.explanation.t = "str" /\ ThePoll.explanation.v = <<>>
    /\ ~parsed.types.isNone /\ parsed.types.names = {"url"}
    /\ Wanted(parsed.types) # {}
    /\ ~parsed.result.ok /\ parsed.result.error = "RuntimeError"

\* the number of UTF-16 code units of a str
RECURSIVE UnitLen(_)
UnitLen(str) ==
    IF str = <<>> THEN 0
    ELSE (IF Head(str) \in Astral THEN 2 ELSE 1) + UnitLen(Tail(str))

Least(a, b) == IF a < b THEN a ELSE b

\* the characters of text between code unit a and code unit b (both cut at
\* the end of the text), if both fall between characters
UnitCuts(text, e) ==
    LET total == UnitLen(text)
        a == Least(e.offset, total)
        b == Least(e.offset + e.length, total)
    IN {<<i, j>> \in (0..Len(text)) \X (0..Len(text)) :
           /\ i <= j
           /\ UnitLen(SubSeq(text, 1, i)) = a
           /\ UnitLen(SubSeq(text, 1, j)) = b}

\* C30: parse_explanation_entities returns exactly when every entity of a
\* requested type can be cut out of an existing explanation at code unit
\* boundaries; its keys are then exactly the entities of a requested type
\* (all types for None), each mapped to the characters between its offset
\* and offset + length, counted in UTF-16 code units.
C30_EntitiesByCodeUnits ==
    (Parsed /\ parsed.op = "parse_explanation_entities") =>
        LET text == ThePoll.explanation.v
            wanted == Wanted(parsed.types)
        IN /\ parsed.result.ok <=>
                 \A e \in wanted : ~NoExplanation /\ UnitCuts(text, e) # {}
           /\ parsed.result.ok =>
                 /\ {pair[1] : pair \in parsed.result.value} = wanted
                 /\ \A pair \in parsed.result.value :
                       \E cut \in UnitCuts(text, pair[1]) :
                           pair[2] = SubSeq(text, cut[1] + 1, cut[2])

\* C30 witness: asked for url entities, the url entity at code units 1..2 of
\* 'a', U+1F600, 'b' is mapped to the one astral character and the bold
\* entity is left out.
C30_Witness ==
    /\ Parsed /\ parsed.op = "parse_explanation_entities"
    /\ ThePoll.explanation.v = <<"a", "U+1F600", "b">>
    /\ ~parsed.types.isNone /\ parsed.types.names = {"url"}
    /\ Len(ThePoll.explanation_entities.v) = 2
    /\ \E i \in 1..2 : ThePoll.explanation_entities.v[i].type = "bold"
    /\ parsed.result.ok
    /\ parsed.result.value = {<<MessageEntity("url", 1, 2), <<"U+1F600">>>>}

\* ---------------------------------------------------------------------
\* CallbackContext and the Application it is built for
\* (tests/test_callbackcontext.py)
\* ---------------------------------------------------------------------

\* how many contexts one application hands out
MaxContexts == 3

\* Chat(1, "chat"), Chat(2, "chat") and User(1, ...), User(2, ...)
ChatIds == {1, 2}
UserIds == {1, 2}

\* the bots an application is built with: an ExtBot with arbitrary callback
\* data, an ExtBot without it, a plain telegram.Bot
ExtBotWithCallbackData == "ExtBot(arbitrary_callback_data=True)"
BotKinds == {ExtBotWithCallbackData, "ExtBot", "Bot"}

\* the three data attributes of a context, and the key the tests write
DataAttrs == {"bot_data", "chat_data", "user_data"}
DataKeys == {"test"}

\* {}
EmptyDict == [k \in DataKeys |-> None]

IsExtBot(kind) == kind # "Bot"

ArbitraryCallbackData_always(kind) == TRUE

\* only an ExtBot built with arbitrary_callback_data has a CallbackDataCache
ArbitraryCallbackData(kind) == kind = ExtBotWithCallbackData

\* CallbackDataCache(): no keyboard stored, no callback query mapped
CallbackDataCache_init == [keyboards |-> {}, queries |-> {}, issued |-> 0]

\* the application after ApplicationBuilder().build(): bot_data is one dict
\* (object 1 of the heap); chat_data and user_data are defaultdict(dict)
Application_init(kind) ==
    [bot |-> kind,
     bot_data |-> 1,
     chat_data |-> [c \in ChatIds |-> None],
     user_data |-> [u \in UserIds |-> None],
     heap |-> <<EmptyDict>>,
     cache |-> IF IsExtBot(kind) /\ ArbitraryCallbackData(kind)
               THEN Some(CallbackDataCache_init) ELSE None]

\* the updates a context is built from: the message of user 1 in chat 1, the
\* message of user 2 in chat 2, or something that is no Update (None, "")
UpdateInputs ==
    {[is_update |-> TRUE, chat |-> i, user |-> i] : i \in ChatIds \cap UserIds}
        \cup {[is_update |-> FALSE, chat |-> 0, user |-> 0]}

\* CallbackContext.from_update(update, application): the context remembers
\* the ids of the update's effective chat and user
from_update(upd) ==
    [_chat_id |-> IF upd.is_update THEN Some(upd.chat) ELSE None,
     _user_id |-> IF upd.is_update THEN Some(upd.user) ELSE None]

defaultdict_getitem_copy(app, field, id) ==
    [application |-> [app EXCEPT ![field][id] = Some(Len(app.heap) + 1),
                                 !.heap = Append(@,
                                     IF app[field][id] = None THEN EmptyDict
                                     ELSE app.heap[app[field][id][1]])],
     ref |-> Len(app.heap) + 1]

\* application.chat_data[id], application.user_data[id]: the dict stored
\* under id, created empty on the first access
defaultdict_getitem(app, field, id) ==
    IF app[field][id] # None
    THEN [application |-> app, ref |-> app[field][id][1]]
    ELSE [application |-> [app EXCEPT ![field][id] = Some(Len(app.heap) + 1),
                                      !.heap = Append(@, EmptyDict)],
          ref |-> Len(app.heap) + 1]

\* the properties context.bot_data, context.chat_data, context.user_data:
\* the application's object, or None for a context without that id
DataGet(app, ctx, attr) ==
    IF attr = "bot_data"
    THEN [application |-> app, value |-> Some(app.bot_data)]
    ELSE LET id == IF attr = "chat_data" THEN ctx._chat_id ELSE ctx._user_id
         IN IF id = None
            THEN [application |-> app, value |-> None]
            ELSE LET got == defaultdict_getitem(app, attr, id[1])
                 IN [application |-> got.application, value |-> Some(got.ref)]

DataSet_rebinding(app, ctx, attr) ==
    [application |-> [app EXCEPT !.heap = Append(@, EmptyDict),
                                 !.bot_data = Len(app.heap) + 1],
     result |-> Ok(None)]

\* the setters of the three properties: assignment is refused
DataSet(app, ctx, attr) ==
    [application |-> app, result |-> Err("AttributeError", "setter")]

\* what the last operation was, on which context (None: no matter), with
\* what argument, and what it gave
CtxOut(op, ctx, on, result) ==
    [op |-> op, ctx |-> ctx, arg |-> on, result |-> result]

\* the contexts built so far, as a bag: a context is told from another only
\* by what it holds
Built == BagToSet(contexts)

InitCtx ==
    /\ application = Application_init("ExtBot")
    /\ contexts = EmptyBag
    /\ ctx_out = CtxOut("Application", None, <<>>, Ok(None))
    /\ PassportUnborn /\ TwinsIdle /\ CredIdle /\ CmdIdle /\ MediaIdle
    /\ PollIdle /\ ChatIdle

ctxFrame == <<vars, twinVars, credVars, cmdVars, mediaVars, pollVars, chatVars>>

\* CallbackContext.from_update(update, app)
FromUpdate ==
    /\ BagCardinality(contexts) < MaxContexts
    /\ \E upd \in UpdateInputs :
          contexts' = contexts (+) SetToBag({from_update(upd)})
    /\ ctx_out' = CtxOut("from_update", None, <<>>, Ok(None))
    /\ UNCHANGED <<application, ctxFrame>>

\* reading context.bot_data, context.chat_data or context.user_data
ReadData ==
    \E ctx \in Built, attr \in DataAttrs :
        LET got == DataGet(application, ctx, attr)
        IN /\ application' = got.application
           /\ ctx_out' = CtxOut("read", Some(ctx), <<attr>>, Ok(got.value))
           /\ UNCHANGED <<contexts, ctxFrame>>

\* context.bot_data["test"] = "bot", and the same for chat_data, user_data
WriteItem ==
    \E ctx \in Built, attr \in DataAttrs, key \in DataKeys :
        LET got == DataGet(application, ctx, attr)
        IN /\ application' =
                 IF got.value = None THEN got.application
                 ELSE [got.application EXCEPT
                          !.heap[got.value[1]][key] = Some(attr)]
           /\ ctx_out' = CtxOut("write", None, <<>>,
                                IF got.value = None
                                THEN Err("TypeError", "setitem") ELSE Ok(None))
           /\ UNCHANGED <<contexts, ctxFrame>>

\* context.bot_data = {...}, context.user_data = {}, context.chat_data = "test"
AssignData ==
    \E ctx \in Built, attr \in DataAttrs :
        LET set == DataSet(application, ctx, attr)
        IN /\ application' = set.application
           /\ ctx_out' = CtxOut("assign", None, <<>>, set.result)
           /\ UNCHANGED <<contexts, ctxFrame>>

NextCtx == FromUpdate \/ ReadData \/ WriteItem \/ AssignData

SpecCtx == InitCtx /\ [][NextCtx]_allvars

\* the data objects the application holds for chats and users
KeyedData == {"chat_data", "user_data"}
Slots == {<<f, id>> : f \in KeyedData, id \in ChatIds \cup UserIds}

\* no object serves two chats, two users, a chat and a user, or one of them
\* and the bot
DataObjectsApart(app) ==
    /\ \A s1 \in Slots, s2 \in Slots :
          (s1 # s2 /\ app[s1[1]][s1[2]] # None)
              => app[s1[1]][s1[2]] # app[s2[1]][s2[2]]
    /\ \A s1 \in Slots : app[s1[1]][s1[2]] # Some(app.bot_data)

\* a data property of a context has just been read
ReadStep == ctx_out' # ctx_out /\ ctx_out'.op = "read"

\* the id a context holds for chat_data or for user_data
IdFor(ctx, attr) == IF attr = "chat_data" THEN ctx._chat_id ELSE ctx._user_id

\* C22: over any sequence of from_update calls on one application, reading
\* chat_data (user_data) through a context gives the one object the
\* application keeps for the context's chat (user): that object is never
\* replaced, so contexts of the same chat and user see the same objects and
\* what was written to them, objects of different chats and users are
\* different objects, and bot_data is always the application's bot_data.
C22_SharedDataObjects ==
    [][/\ DataObjectsApart(application')
       /\ application'.bot_data = application.bot_data
       /\ \A s \in Slots :
             application[s[1]][s[2]] # None
                 => application'[s[1]][s[2]] = application[s[1]][s[2]]
       /\ ReadStep =>
             LET ctx == ctx_out'.ctx[1]
                 attr == ctx_out'.arg[1]
                 value == ctx_out'.result.value
             IN /\ attr = "bot_data" => value = Some(application'.bot_data)
                /\ (attr # "bot_data" /\ IdFor(ctx, attr) # None) =>
                      /\ value # None
                      /\ value = application'[attr][IdFor(ctx, attr)[1]]
                /\ (attr # "bot_data" /\ IdFor(ctx, attr) = None) =>
                      value = None
                /\ (value # None /\ value[1] <= Len(application.heap)) =>
                      application'.heap[value[1]] = application.heap[value[1]]
      ]_ctxVars

\* two contexts of chat 1 and user 1 and one of chat 2 and user 2 exist;
\* "test" was written to the chat_data of chat 1, and chat_data has just been
\* read through a context of chat 1, giving the object that holds the write,
\* while chat 2 has an object of its own
C22_Witness ==
    /\ application # None
    /\ CopiesIn([_chat_id |-> Some(1), _user_id |-> Some(1)], contexts) = 2
    /\ CopiesIn([_chat_id |-> Some(2), _user_id |-> Some(2)], contexts) = 1
    /\ ctx_out.op = "read"
    /\ ctx_out.arg = <<"chat_data">>
    /\ ctx_out.ctx = Some([_chat_id |-> Some(1), _user_id |-> Some(1)])
    /\ ctx_out.result.value = application.chat_data[1]
    /\ application.chat_data[1] # None
    /\ application.heap[application.chat_data[1][1]]["test"] = Some("chat_data")
    /\ application.chat_data[2] # None
    /\ application.chat_data[2] # application.chat_data[1]

\* a data attribute of a context has just been assigned to
AssignStep == ctx_out' # ctx_out /\ ctx_out'.op = "assign"

\* C23: bot_data, user_data and chat_data of a context cannot be reassigned:
\* every assignment raises AttributeError and leaves the application's data
\* objects, and the contexts, as they were.
C23_NoReassignment ==
    [][AssignStep =>
          /\ ~ctx_out'.result.ok
          /\ ctx_out'.result.error = "AttributeError"
          /\ application' = application
          /\ contexts' = contexts]_ctxVars

\* an assignment through a context of chat 1 has been refused while the
\* application held written bot_data and chat_data
C23_Witness ==
    /\ application # None
    /\ ctx_out.op = "assign"
    /\ ~ctx_out.result.ok
    /\ ctx_out.result.error = "AttributeError"
    /\ CopiesIn([_chat_id |-> Some(1), _user_id |-> Some(1)], contexts) >= 1
    /\ application.heap[application.bot_data]["test"] = Some("bot_data")
    /\ application.chat_data[1] # None
    /\ application.heap[application.chat_data[1][1]]["test"] = Some("chat_data")

\* ---------------------------------------------------------------------
\* CallbackContext.drop_callback_data and the callback data cache
\* (tests/test_callbackcontext.py)
\* ---------------------------------------------------------------------

\* how many keyboards are sent
MaxKeyboards == 2

\* CallbackQuery(id="1", ...)
QueryIds == {"1", "2"}

\* CallbackDataCache.process_keyboard: the keyboard's callback data is stored
\* under a uuid no keyboard had before
process_keyboard(cache) ==
    [cache EXCEPT !.issued = @ + 1, !.keyboards = @ \cup {cache.issued + 1}]

\* CallbackDataCache.process_callback_query for a query whose data names
\* keyboard kb: the query's id is mapped to the keyboard if the cache still
\* holds it, otherwise the data is invalid and nothing is mapped
process_callback_query(cache, q, kb) ==
    IF kb \in cache.keyboards
    THEN [cache EXCEPT !.queries = {p \in @ : p[1] # q} \cup {<<q, kb>>}]
    ELSE cache

drop_keyboard_kept(cache, kb) == cache

\* CallbackDataCache.__drop_keyboard: a keyboard that is gone already is
\* passed over
drop_keyboard(cache, kb) == [cache EXCEPT !.keyboards = @ \ {kb}]

\* CallbackDataCache.drop_data: pops the query's mapping and drops the
\* keyboard it named; KeyError for a query the cache does not know
drop_data(cache, q) ==
    IF \E p \in cache.queries : p[1] = q
    THEN LET kb == (CHOOSE p \in cache.queries : p[1] = q)[2]
         IN [cache |-> drop_keyboard(
                          [cache EXCEPT !.queries = {p \in @ : p[1] # q}], kb),
             result |-> Ok(None)]
    ELSE [cache |-> cache, result |-> Err("KeyError", "drop_data")]

\* CallbackDataCache.persistence_data: the stored keyboards and the mapping
\* of query ids
persistence_data(cache) == <<cache.keyboards, cache.queries>>

\* CallbackContext.drop_callback_data(callback_query)
drop_callback_data(app, q) ==
    IF IsExtBot(app.bot)
    THEN IF app.cache = None
         THEN [application |-> app,
               result |-> Err("RuntimeError",
                   "This telegram.ext.ExtBot instance does not use arbitrary callback data.")]
         ELSE LET dropped == drop_data(app.cache[1], q)
              IN [application |-> [app EXCEPT !.cache = Some(dropped.cache)],
                  result |-> dropped.result]
    ELSE [application |-> app,
          result |-> Err("RuntimeError",
              "telegram.Bot does not allow for arbitrary callback data.")]

\* an application with any of the bots, and a context built from the update
\* of user 1 in chat 1
InitDrop ==
    /\ \E kind \in BotKinds : application = Application_init(kind)
    /\ contexts = SetToBag({from_update([is_update |-> TRUE, chat |-> 1, user |-> 1])})
    /\ ctx_out = CtxOut("from_update", None, <<>>, Ok(None))
    /\ PassportUnborn /\ TwinsIdle /\ CredIdle /\ CmdIdle /\ MediaIdle
    /\ PollIdle /\ ChatIdle

\* app.bot.send_message(..., reply_markup=InlineKeyboardMarkup(...)): with
\* arbitrary callback data the keyboard goes through the cache
SendKeyboard ==
    /\ application.cache # None => application.cache[1].issued < MaxKeyboards
    /\ application' =
          IF application.cache = None THEN application
          ELSE [application EXCEPT !.cache = Some(process_keyboard(@[1]))]
    /\ ctx_out' = CtxOut("send_message", None, <<>>, Ok(None))
    /\ UNCHANGED <<contexts, ctxFrame>>

\* app.bot.callback_data_cache.process_callback_query(callback_query)
ProcessCallbackQuery ==
    /\ application.cache # None
    /\ \E q \in QueryIds, kb \in 1..MaxKeyboards :
          /\ application' = [application EXCEPT
                !.cache = Some(process_callback_query(@[1], q, kb))]
          /\ ctx_out' = CtxOut("process_callback_query", None, <<q>>, Ok(None))
    /\ UNCHANGED <<contexts, ctxFrame>>

\* callback_context.drop_callback_data(callback_query)
DropCallbackData ==
    /\ \E ctx \in Built, q \in QueryIds :
          LET dropped == drop_callback_data(application, q)
          IN /\ application' = dropped.application
             /\ ctx_out' = CtxOut("drop_callback_data", Some(ctx), <<q>>,
                                  dropped.result)
    /\ UNCHANGED <<contexts, ctxFrame>>

NextDrop == SendKeyboard \/ ProcessCallbackQuery \/ DropCallbackData

SpecDrop == InitDrop /\ [][NextDrop]_allvars

\* drop_callback_data has just been called
DropStep == ctx_out' # ctx_out /\ ctx_out'.op = "drop_callback_data"

\* the query of the call, and the cache's entry for it
DroppedQuery == ctx_out'.arg[1]
Mapped(q) == \E p \in application.cache[1].queries : p[1] = q
EntryOf(q) == CHOOSE p \in application.cache[1].queries : p[1] = q

\* C24: with arbitrary callback data, drop_callback_data for a callback query
\* the cache has processed removes the query's id mapping and the keyboard
\* data it belongs to, and nothing else; when these were the only entries,
\* persistence_data is empty afterwards.
C24_DropRemovesBoth ==
    [][(DropStep /\ application.bot = ExtBotWithCallbackData
                 /\ Mapped(DroppedQuery)) =>
          LET old == application.cache[1]
              new == application'.cache[1]
              entry == EntryOf(DroppedQuery)
          IN /\ ctx_out'.result.ok
             /\ new.queries = old.queries \ {entry}
             /\ new.keyboards = old.keyboards \ {entry[2]}
             /\ (old.queries = {entry} /\ old.keyboards = {entry[2]})
                   => persistence_data(new) = <<{}, {}>>]_ctxVars

\* one keyboard was sent, query "1" was processed and then dropped, and the
\* cache is empty
C24_Witness ==
    /\ application # None
    /\ application.bot = ExtBotWithCallbackData
    /\ application.cache[1].issued = 1
    /\ ctx_out.op = "drop_callback_data"
    /\ ctx_out.arg = <<"1">>
    /\ ctx_out.result.ok
    /\ persistence_data(application.cache[1]) = <<{}, {}>>

\* C25: when the application's bot does not allow arbitrary callback data, an
\* ExtBot built without it or a plain Bot, drop_callback_data raises
\* RuntimeError and the application is left as it was.
C25_DropRefused ==
    [][(DropStep /\ application.bot \in {"ExtBot", "Bot"}) =>
          /\ ~ctx_out'.result.ok
          /\ ctx_out'.result.error = "RuntimeError"
          /\ application' = application]_ctxVars

\* drop_callback_data was called on the application of a plain Bot and
\* raised RuntimeError
C25_Witness ==
    /\ application # None
    /\ application.bot = "Bot"
    /\ ctx_out.op = "drop_callback_data"
    /\ ~ctx_out.result.ok
    /\ ctx_out.result.error = "RuntimeError"
    /\ ctx_out.result.stage = "telegram.Bot does not allow for arbitrary callback data."

\* ---------------------------------------------------------------------
\* Chat: the shortcuts to the Bot's methods, and equality
\* (tests/test_chat.py)
\* ---------------------------------------------------------------------

\* TestChat.id_ and the id of the other chat of test_equality
ChatObjectIds == {-28767330, 0}
\* TestChat.title, TestChat.type_, and the empty ones of test_equality
ChatTitles == {"ToledosPalaceBot - Group", ""}
ChatTypes == {"group", ""}

\* the values the tests pass as arguments, and what the patched Bot method
\* answers
ArgValues == {42, 43}
BotResults == {TRUE, FALSE}

\* Chat(id, title, type): a chat is identified by its id
Chat_init(id, title, type) ==
    [class |-> "Chat", id |-> id, title |-> title, type |-> type,
     _id_attrs |-> <<id>>]

\* User(id, first_name, is_bot): a user is identified by its id
User_init(id, first_name, is_bot) ==
    [class |-> "User", id |-> id, first_name |-> first_name,
     is_bot |-> is_bot, _id_attrs |-> <<id>>]

TelegramObject_eq_by_attrs(a, b) == a._id_attrs = b._id_attrs

\* TelegramObject.__eq__: an object of the same class with the same _id_attrs
TelegramObject_eq(a, b) == b.class = a.class /\ a._id_attrs = b._id_attrs

\* hash() of a class, of an int, and of a tuple of ints, in a small hash space
HashModulus == 8191
ClassHash(cls) == IF cls = "Chat" THEN 1 ELSE 2
RECURSIVE TupleHash(_)
TupleHash(t) ==
    IF t = <<>> THEN 7
    ELSE (31 * TupleHash(Tail(t)) + (Head(t) % HashModulus)) % HashModulus

\* TelegramObject.__hash__: hash((self.__class__, self._id_attrs))
TelegramObject_hash(a) ==
    (31 * ClassHash(a.class) + TupleHash(a._id_attrs)) % HashModulus

\* a shortcut of Chat: its name, the Bot method it stands for, the parameter
\* it fills in with the chat's id, and the arguments its test calls it with
Sc(name, method, fixed, params) ==
    [name |-> name, method |-> method, fixed |-> fixed, params |-> params]

Shortcuts ==
    {Sc("send_action", "send_chat_action", "chat_id",
       {"action"}),
     Sc("leave", "leave_chat", "chat_id",
       {}),
     Sc("get_administrators", "get_chat_administrators", "chat_id",
       {}),
     Sc("get_member_count", "get_chat_member_count", "chat_id",
       {}),
     Sc("get_member", "get_chat_member", "chat_id",
       {"user_id"}),
     Sc("ban_member", "ban_chat_member", "chat_id",
       {"user_id", "until_date"}),
     Sc("ban_sender_chat", "ban_chat_sender_chat", "chat_id",
       {"sender_chat_id"}),
     Sc("ban_chat", "ban_chat_sender_chat", "sender_chat_id",
       {"chat_id"}),
     Sc("unban_member", "unban_chat_member", "chat_id",
       {"user_id", "only_if_banned"}),
     Sc("unban_sender_chat", "unban_chat_sender_chat", "chat_id",
       {"sender_chat_id"}),
     Sc("unban_chat", "unban_chat_sender_chat", "sender_chat_id",
       {"chat_id"}),
     Sc("promote_member", "promote_chat_member", "chat_id",
       {"user_id", "is_anonymous"}),
     Sc("restrict_member", "restrict_chat_member", "chat_id",
       {"user_id", "permissions"}),
     Sc("set_permissions", "set_chat_permissions", "chat_id",
       {"permissions"}),
     Sc("set_administrator_custom_title", "set_chat_administrator_custom_title", "chat_id",
       {"user_id", "custom_title"}),
     Sc("pin_message", "pin_chat_message", "chat_id",
       {"message_id"}),
     Sc("unpin_message", "unpin_chat_message", "chat_id",
       {}),
     Sc("unpin_all_messages", "unpin_all_chat_messages", "chat_id",
       {}),
     Sc("send_message", "send_message", "chat_id",
       {"text"}),
     Sc("send_media_group", "send_media_group", "chat_id",
       {"media"}),
     Sc("send_photo", "send_photo", "chat_id",
       {"photo"}),
     Sc("send_contact", "send_contact", "chat_id",
       {"phone_number"}),
     Sc("send_audio", "send_audio", "chat_id",
       {"audio"}),
     Sc("send_document", "send_document", "chat_id",
       {"document"}),
     Sc("send_dice", "send_dice", "chat_id",
       {"emoji"}),
     Sc("send_game", "send_game", "chat_id",
       {"game_short_name"}),
     Sc("send_invoice", "send_invoice", "chat_id",
       {"title", "description", "payload", "provider_token", "currency", "prices"}),
     Sc("send_location", "send_location", "chat_id",
       {"latitude"}),
     Sc("send_sticker", "send_sticker", "chat_id",
       {"sticker"}),
     Sc("send_venue", "send_venue", "chat_id",
       {"title"}),
     Sc("send_video", "send_video", "chat_id",
       {"video"}),
     Sc("send_video_note", "send_video_note", "chat_id",
       {"video_note"}),
     Sc("send_voice", "send_voice", "chat_id",
       {"voice"}),
     Sc("send_animation", "send_animation", "chat_id",
       {"animation"}),
     Sc("send_poll", "send_poll", "chat_id",
       {"question", "options"}),
     Sc("send_copy", "copy_message", "chat_id",
       {"from_chat_id", "message_id"}),
     Sc("copy_message", "copy_message", "from_chat_id",
       {"chat_id", "message_id"}),
     Sc("export_invite_link", "export_chat_invite_link", "chat_id",
       {}),
     Sc("create_invite_link", "create_chat_invite_link", "chat_id",
       {}),
     Sc("edit_invite_link", "edit_chat_invite_link", "chat_id",
       {"invite_link"}),
     Sc("revoke_invite_link", "revoke_chat_invite_link", "chat_id",
       {"invite_link"}),
     Sc("get_menu_button", "get_chat_menu_button", "chat_id",
       {}),
     Sc("set_menu_button", "set_chat_menu_button", "chat_id",
       {"menu_button"}),
     Sc("approve_join_request", "approve_chat_join_request", "chat_id",
       {"user_id"}),
     Sc("decline_join_request", "decline_chat_join_request", "chat_id",
       {"user_id"})}

ShortcutNames == {sc.name : sc \in Shortcuts}
ShortcutOf(name) == CHOOSE sc \in Shortcuts : sc.name = name

FixedParam_chat_id(name) == "chat_id"

\* the parameter of the Bot method that a shortcut fills in itself
FixedParam(name) == ShortcutOf(name).fixed

\* the Bot method a shortcut stands for
BotMethod(name) == ShortcutOf(name).method

\* the keyword arguments a caller can give a shortcut: a value for each of
\* its parameters
ArgsFor(name) ==
    {{<<p, f[p]>> : p \in ShortcutOf(name).params} :
        f \in [ShortcutOf(name).params -> ArgValues]}

\* a shortcut of Chat: the call it makes on the chat's Bot
Chat_shortcut(c, name, args) ==
    [method |-> BotMethod(name),
     kwargs |-> args \cup {<<FixedParam(name), c.id>>}]

\* a Chat has been constructed with a Bot whose methods are patched
InitChat ==
    /\ \E id \in ChatObjectIds, title \in ChatTitles, type \in ChatTypes :
          chat = Chat_init(id, title, type)
    /\ bot_calls = <<>>
    /\ chat_out = None
    /\ PassportUnborn /\ TwinsIdle /\ CredIdle /\ CmdIdle /\ MediaIdle
    /\ PollIdle /\ CtxIdle

chatFrame == <<vars, twinVars, credVars, cmdVars, mediaVars, pollVars, ctxVars>>

\* await chat.<shortcut>(**kwargs): the patched Bot method records the call
\* and answers
CallShortcut ==
    /\ chat_out = None
    /\ \E name \in ShortcutNames :
          \E args \in ArgsFor(name), answer \in BotResults :
              LET call == Chat_shortcut(chat, name, args)
              IN /\ bot_calls' = Append(bot_calls,
                        [method |-> call.method, kwargs |-> call.kwargs,
                         result |-> answer])
                 /\ chat_out' = [op |-> "shortcut", name |-> name,
                                 args |-> args, result |-> answer]
    /\ UNCHANGED <<chat, chatFrame>>

\* a == b and the two hashes, for another Chat
CompareWithChat ==
    /\ chat_out = None
    /\ \E id \in ChatObjectIds, title \in ChatTitles, type \in ChatTypes :
          LET other == Chat_init(id, title, type)
          IN chat_out' = [op |-> "compare", other |-> other,
                          equal |-> TelegramObject_eq(chat, other),
                          hashes |-> <<TelegramObject_hash(chat),
                                       TelegramObject_hash(other)>>]
    /\ UNCHANGED <<chat, bot_calls, chatFrame>>

\* a == e and the two hashes, for a User
CompareWithUser ==
    /\ chat_out = None
    /\ \E id \in ChatObjectIds, is_bot \in BOOLEAN :
          LET other == User_init(id, "", is_bot)
          IN chat_out' = [op |-> "compare", other |-> other,
                          equal |-> TelegramObject_eq(chat, other),
                          hashes |-> <<TelegramObject_hash(chat),
                                       TelegramObject_hash(other)>>]
    /\ UNCHANGED <<chat, bot_calls, chatFrame>>

NextChat == CallShortcut \/ CompareWithChat \/ CompareWithUser

SpecChat == InitChat /\ [][NextChat]_allvars

\* a shortcut has been called
ShortcutCalled == chat_out # None /\ chat_out.op = "shortcut"

\* the parameter that carries the chat's id
ClaimedParam(name) ==
    IF name \in {"ban_chat", "unban_chat"} THEN "sender_chat_id"
    ELSE IF name = "copy_message" THEN "from_chat_id"
    ELSE "chat_id"

Compared == chat_out # None /\ chat_out.op = "compare"

\* C27: a Chat equals another Chat exactly when their ids are equal, whatever
\* their titles and types, and then their hashes are equal too; a Chat never
\* equals a User, not even one with the same id.
C27_ChatEqualityById ==
    Compared =>
        LET other == chat_out.other
        IN /\ (other.class = "Chat" /\ other.id = chat.id) =>
                 /\ chat_out.equal
                 /\ chat_out.hashes[1] = chat_out.hashes[2]
           /\ (other.class = "Chat" /\ other.id # chat.id) => ~chat_out.equal
           /\ other.class = "User" => ~chat_out.equal

\* the group chat has been compared with Chat(id, "", "") of the same id and
\* with equal outcome and equal hashes
C27_Witness ==
    /\ Compared
    /\ chat.id = -28767330
    /\ chat.title = "ToledosPalaceBot - Group"
    /\ chat_out.other.class = "Chat"
    /\ chat_out.other.id = chat.id
    /\ chat_out.other.title = ""
    /\ chat_out.other.type = ""
    /\ chat_out.equal
    /\ chat_out.hashes[1] = chat_out.hashes[2]

====
